---- MODULE Spec2Model ----
(***************************************************************************)
(* A model of the archive extraction engine of ghinstall                   *)
(* (internal/extractor): format sniffing, the entry path guard, the entry  *)
(* materializer and the Extract facade of the extractor variants.          *)
(*                                                                         *)
(* Strings are sequences of characters.  A character is a one-token        *)
(* string: "/" is the path separator, "." the dot, every other token       *)
(* stands for one or more ordinary characters of a file name.              *)
(***************************************************************************)
EXTENDS Integers, Sequences, FiniteSets, TLC

(***************************************************************************)
(* Strings and lexical path arithmetic (package strings, path/filepath on  *)
(* a Unix build: os.PathSeparator = '/').                                  *)
(***************************************************************************)
Sep == "/"
Dot == "."
DotDot == <<Dot, Dot>>

\* strings.HasPrefix(s, prefix)
HasPrefix(s, prefix) ==
    /\ Len(prefix) <= Len(s)
    /\ SubSeq(s, 1, Len(prefix)) = prefix

\* strings.HasSuffix(s, "/")
EndsWithSep(s) == s # <<>> /\ s[Len(s)] = Sep

\* the elements of a path between separators, empty elements included
RECURSIVE SplitSep(_)
SplitSep(s) ==
    IF s = <<>> THEN << <<>> >>
    ELSE LET rest == SplitSep(Tail(s))
         IN  IF Head(s) = Sep
             THEN << <<>> >> \o rest
             ELSE << <<Head(s)>> \o Head(rest) >> \o Tail(rest)

\* the elements joined by single separators
RECURSIVE JoinSegs(_)
JoinSegs(segs) ==
    IF segs = <<>> THEN <<>>
    ELSE IF Len(segs) = 1 THEN Head(segs)
    ELSE Head(segs) \o <<Sep>> \o JoinSegs(Tail(segs))

\* the element loop of filepath.Clean: out is the stack of kept elements
RECURSIVE CleanFold(_, _, _)
CleanFold(segs, rooted, out) ==
    IF segs = <<>> THEN out
    ELSE LET s == Head(segs)
             r == Tail(segs)
         IN  IF s = <<>> \/ s = <<Dot>> THEN CleanFold(r, rooted, out)
             ELSE IF s = DotDot
                  THEN IF out # <<>> /\ out[Len(out)] # DotDot
                       THEN CleanFold(r, rooted, SubSeq(out, 1, Len(out) - 1))
                       ELSE IF rooted THEN CleanFold(r, rooted, out)
                       ELSE CleanFold(r, rooted, Append(out, DotDot))
                  ELSE CleanFold(r, rooted, Append(out, s))

\* filepath.IsAbs
IsAbs(p) == p # <<>> /\ Head(p) = Sep

\* the kept elements of the cleaned path
CleanSegs(p) == CleanFold(SplitSep(p), IsAbs(p), <<>>)

\* the cleaned path of the kept elements
CleanOut(rooted, segs) ==
    IF rooted THEN <<Sep>> \o JoinSegs(segs)
    ELSE IF segs = <<>> THEN <<Dot>>
    ELSE JoinSegs(segs)

\* filepath.Clean
Clean(p) == IF p = <<>> THEN <<Dot>> ELSE CleanOut(IsAbs(p), CleanSegs(p))

\* filepath.Join(a, b): empty elements are ignored, the result is cleaned
Join(a, b) ==
    IF a = <<>> /\ b = <<>> THEN <<>>
    ELSE Clean(IF a = <<>> THEN b
               ELSE IF b = <<>> THEN a
               ELSE a \o <<Sep>> \o b)

\* index of the last separator of p, 0 if there is none
LastSep(p) ==
    LET idx == {i \in 1..Len(p) : p[i] = Sep}
    IN  IF idx = {} THEN 0 ELSE CHOOSE i \in idx : \A j \in idx : j <= i

\* filepath.Dir
Dir(p) == Clean(SubSeq(p, 1, LastSep(p)))

\* length of the longest common prefix of two element lists
RECURSIVE CommonLen(_, _)
CommonLen(a, b) ==
    IF a = <<>> \/ b = <<>> \/ Head(a) # Head(b) THEN 0
    ELSE 1 + CommonLen(Tail(a), Tail(b))

\* the elements of a cleaned path ("." has none)
ElemsOf(cleaned) == IF cleaned = <<Dot>> THEN <<>> ELSE CleanSegs(cleaned)

\* filepath.Rel once the common elements are counted: k of them
RelFrom(bs, ts, k) ==
    IF k < Len(bs) /\ bs[k + 1] = DotDot THEN [err |-> TRUE, rel |-> <<>>]
    ELSE [err |-> FALSE,
          rel |-> JoinSegs([i \in 1..(Len(bs) - k) |-> DotDot]
                           \o SubSeq(ts, k + 1, Len(ts)))]

\* filepath.Rel on the element lists of the two cleaned paths
RelElems(bs, ts) == RelFrom(bs, ts, CommonLen(bs, ts))

\* filepath.Rel on the two cleaned paths
RelCleaned(base, targ) ==
    IF targ = base THEN [err |-> FALSE, rel |-> <<Dot>>]
    ELSE IF IsAbs(base) # IsAbs(targ) THEN [err |-> TRUE, rel |-> <<>>]
    ELSE RelElems(ElemsOf(base), ElemsOf(targ))

\* filepath.Rel(base, targ): [err, rel]
Rel(basepath, targpath) == RelCleaned(Clean(basepath), Clean(targpath))

(***************************************************************************)
(* The filesystem.  fs maps a physical path (cleaned, no symbolic link in  *)
(* it) to a node; "/" and the working directory "." always exist.  The     *)
(* operations are those package os offers the extractors; each returns     *)
(* [ok, fs].                                                               *)
(***************************************************************************)
MaxLinkHops == 8

\* permission bits: 0755 and 0644, and the mode of a link
DirPerm == 493
FilePerm == 420
LinkPerm == 511

DirNode == [kind |-> "dir", data |-> <<>>, mode |-> DirPerm]
FileNode(data) == [kind |-> "file", data |-> data, mode |-> FilePerm]
LinkNode(target) == [kind |-> "link", data |-> target, mode |-> LinkPerm]

\* the owner may write: bit 0200 of the permission bits
Writable(mode) == (mode \div 128) % 2 = 1

\* the directory at the physical path d refuses new names to the calling
\* user (EACCES): it is in the tree and its owner-write bit is off
DeniedIn(fs, d) == d \in DOMAIN fs /\ fs[d].kind = "dir" /\ ~Writable(fs[d].mode)

\* what a path resolution that follows too many links yields (ELOOP)
Loop == <<"!">>

\* the directory a path is resolved from
StartOf(p) == IF IsAbs(p) THEN <<Sep>> ELSE <<Dot>>

\* the kernel's path walk: the physical path of the elements segs below the
\* physical directory cur, following symbolic links on the way
RECURSIVE Walk(_, _, _, _, _)
\* the walk goes on from the path np a link pointed to
WalkFrom(fs, np, rest, followLast, fuel) ==
    Walk(fs, StartOf(np), CleanSegs(np) \o rest, followLast, fuel)

\* one element of the walk: cand is the element's path below cur
WalkElem(fs, cur, cand, rest, followLast, fuel) ==
    IF cand \in DOMAIN fs /\ fs[cand].kind = "link" /\ (rest # <<>> \/ followLast)
    THEN IF fuel = 0 THEN Loop
         ELSE WalkFrom(fs, IF IsAbs(fs[cand].data) THEN Clean(fs[cand].data)
                           ELSE Join(cur, fs[cand].data),
                       rest, followLast, fuel - 1)
    ELSE Walk(fs, cand, rest, followLast, fuel)

Walk(fs, cur, segs, followLast, fuel) ==
    IF segs = <<>> THEN cur
    ELSE WalkElem(fs, cur, Join(cur, Head(segs)), Tail(segs), followLast, fuel)

\* the physical path a system call on p acts on
Resolve(fs, p, followLast) ==
    Walk(fs, StartOf(p), CleanSegs(p), followLast, MaxLinkHops)

\* the kind of the node at a physical path
KindAt(fs, ph) ==
    IF ph = <<Sep>> \/ ph = <<Dot>> THEN "dir"
    ELSE IF ph \in DOMAIN fs THEN fs[ph].kind
    ELSE "none"

\* os.Stat: follows links
StatKind(fs, p) == KindAt(fs, Resolve(fs, p, TRUE))

\* fs with the node at ph set
Put(fs, ph, node) == [q \in DOMAIN fs \cup {ph} |-> IF q = ph THEN node ELSE fs[q]]

\* os.MkdirAll
RECURSIVE MkdirAllFS(_, _, _)
\* os.Mkdir(ph, perm) at the physical path ph
MkdirAt(fs, ph, perm) ==
    IF ph = Loop \/ KindAt(fs, ph) # "none" \/ DeniedIn(fs, Dir(ph))
    THEN [ok |-> FALSE, fs |-> fs]
    ELSE [ok |-> TRUE, fs |-> Put(fs, ph, [DirNode EXCEPT !.mode = perm])]

\* os.MkdirAll after the parent was made: par is the parent's outcome
MkdirLeaf(par, cp, perm) ==
    IF ~par.ok THEN par ELSE MkdirAt(par.fs, Resolve(par.fs, cp, FALSE), perm)

\* os.MkdirAll after its os.Stat: st is the kind found at the path
MkdirAllStat(fs, cp, st, perm) ==
    IF st = "dir" THEN [ok |-> TRUE, fs |-> fs]
    ELSE IF st # "none" THEN [ok |-> FALSE, fs |-> fs]
    ELSE MkdirLeaf(MkdirAllFS(fs, Dir(cp), perm), cp, perm)

\* os.MkdirAll(p, perm): every directory it makes gets perm
MkdirAllFS(fs, p, perm) == MkdirAllStat(fs, Clean(p), StatKind(fs, p), perm)

\* os.OpenFile at the physical path ph: an existing file is truncated and
\* keeps its mode, a new one is made with mode
OpenAt(fs, ph, mode) ==
    IF ph = Loop \/ KindAt(fs, ph) = "dir" \/ KindAt(fs, Dir(ph)) # "dir"
    THEN [ok |-> FALSE, fs |-> fs]
    ELSE IF KindAt(fs, ph) = "file"
    THEN IF Writable(fs[ph].mode)
         THEN [ok |-> TRUE, fs |-> Put(fs, ph, [fs[ph] EXCEPT !.data = <<>>])]
         ELSE [ok |-> FALSE, fs |-> fs]
    ELSE IF DeniedIn(fs, Dir(ph)) THEN [ok |-> FALSE, fs |-> fs]
    ELSE [ok |-> TRUE, fs |-> Put(fs, ph, [FileNode(<<>>) EXCEPT !.mode = mode])]

\* os.OpenFile(path, O_WRONLY|O_CREATE|O_TRUNC, mode)
OpenFileFS(fs, p, mode) == OpenAt(fs, Resolve(fs, p, TRUE), mode)

\* the bytes written to the open file at the physical path ph
WriteAt(fs, ph, data) == Put(fs, ph, [fs[ph] EXCEPT !.data = @ \o data])

\* the bytes written to the open file at p
WriteFS(fs, p, data) == WriteAt(fs, Resolve(fs, p, TRUE), data)

\* os.Symlink at the physical path ph
SymlinkAt(fs, target, ph) ==
    IF ph = Loop \/ KindAt(fs, ph) # "none" \/ KindAt(fs, Dir(ph)) # "dir"
       \/ DeniedIn(fs, Dir(ph))
    THEN [ok |-> FALSE, fs |-> fs]
    ELSE [ok |-> TRUE, fs |-> Put(fs, ph, LinkNode(target))]

\* os.Symlink(target, path)
SymlinkFS(fs, target, p) == SymlinkAt(fs, target, Resolve(fs, p, FALSE))

(***************************************************************************)
(* Format sniffing.  A source is [head, len, ustar]: its first bytes (at   *)
(* most 4 of them), its length in bytes, and whether bytes 257..261 spell  *)
(* "ustar".                                                                *)
(***************************************************************************)
PeekLen == 4
BufferSize == 65536
PeekHeaderLen == 512
DefaultBufSize == 4096

\* a detection that takes the first two bytes "PK" for a zip archive
detectFormatFromTwoBytes(data) ==
    IF Len(data) < 4 THEN ""
    ELSE IF data[1] = 31 /\ data[2] = 139 THEN "tar.gz"
    ELSE IF data[1] = 80 /\ data[2] = 75 THEN "zip"
    ELSE ""

\* detectFormatFromBytes
detectFormatFromBytes(data) ==
    IF Len(data) < 4 THEN ""
    ELSE IF data[1] = 31 /\ data[2] = 139 THEN "tar.gz"
    ELSE IF data[1] = 80 /\ data[2] = 75 /\ data[3] = 3 /\ data[4] = 4 THEN "zip"
    ELSE ""

\* MultiExtractor's detectFormat(data []byte): [format, msg]
detectFormat(data) ==
    IF Len(data) < 4
    THEN [format |-> "", msg |-> "file too small to detect format"]
    ELSE IF data[1] = 31 /\ data[2] = 139
    THEN [format |-> "tar.gz", msg |-> ""]
    ELSE IF data[1] = 80 /\ data[2] = 75 /\ data[3] = 3 /\ data[4] = 4
    THEN [format |-> "zip", msg |-> ""]
    ELSE [format |-> "", msg |-> "unknown archive format"]

\* the peeking MultiExtractor's detectFormat(header []byte), on a header of
\* PeekHeaderLen bytes
detectFormatPeek(head, ustar) ==
    IF Len(head) < 4 THEN ""
    ELSE IF head = <<80, 75, 3, 4>> THEN "zip"
    ELSE IF SubSeq(head, 1, 2) = <<31, 139>> THEN "tar.gz"
    ELSE IF ustar \/ head[1] = 0 THEN "tar"
    ELSE ""

\* the bytes a bufio.Reader of size bufSize may have read from a source of
\* srcLen bytes when Peek(n) returns: all of a source shorter than n, else
\* at least n and at most a buffer full
ReadAheads(n, bufSize, srcLen) ==
    LET most == IF srcLen < bufSize THEN srcLen ELSE bufSize
    IN  IF srcLen < n THEN {srcLen}
        ELSE {n, most} \cup {k \in {n + 1} : k <= most}

\* the 4-byte buffer of detectFormatFromFile after one Read of the file
ReadInto4(head) == [i \in 1..4 |-> IF i <= Len(head) THEN head[i] ELSE 0]

(***************************************************************************)
(* Archive entries and the entry guard.  An entry is [name, kind, link,    *)
(* data]: kind is "dir", "reg", "symlink" or "other" (hard link, device,   *)
(* fifo); data is the content as a sequence of blocks, each a buffer full  *)
(* of bytes or the shorter last one.                                       *)
(***************************************************************************)
\* a type switch that materializes every unknown type as a regular file
TarTypeOtherAsFile(e) == IF e.kind \in {"reg", "other"} THEN "reg" ELSE e.kind

\* the type tar.Reader.Next reports: a regular file named with a trailing
\* slash is a directory
TarType(e) == IF e.kind = "reg" /\ EndsWithSep(e.name) THEN "dir" ELSE e.kind

\* zip.File.FileInfo().IsDir()
ZipIsDir(e) == e.kind = "dir" \/ EndsWithSep(e.name)

\* a skip of the name "." alone
IsCurrentDirDot(name) == name = <<Dot>>

\* "Skip the current directory entry"
IsCurrentDir(name) == name = <<Dot, Sep>> \/ name = <<Dot>>

\* a rejecting condition that is the raw string-prefix test alone
RejectedRawPrefix(cleanedPath, cleanedDst) == ~HasPrefix(cleanedPath, cleanedDst)

\* "Prevent directory traversal attacks": the rejecting condition of
\* extractTarEntryOptimized / extractZipEntryOptimized
Rejected(cleanedPath, cleanedDst) ==
    \/ ~HasPrefix(cleanedPath, cleanedDst)
    \/ /\ cleanedPath # cleanedDst
       /\ ~HasPrefix(cleanedPath, cleanedDst \o <<Sep>>)

\* a traversal check on the joined path as written, not canonicalized
PathAdmittedAsWritten(dst, name) == HasPrefix(dst \o <<Sep>> \o name, dst)

\* the entry passes the traversal check
PathAdmitted(dst, name) == ~Rejected(Clean(Join(dst, name)), Clean(dst))

\* the symlink target check of extractTarEntryOptimized
SymlinkTargetOK(dst, linkTarget) == HasPrefix(Join(dst, linkTarget), dst)

\* the verdict of inside on the result r of filepath.Rel
RelInside(r) == ~r.err /\ r.rel # DotDot /\ ~HasPrefix(r.rel, DotDot \o <<Sep>>)

\* inside(root, path)
inside(root, path) == RelInside(Rel(root, path))

\* the symlink target check of tarExtractor.extractEntry
SymlinkTargetInside(dst, path, target) == inside(dst, Join(Dir(path), target))

(***************************************************************************)
(* The entry materializer.  Every operator returns [msg, fs, calls, hit]:  *)
(* the error message ("" for nil), the filesystem and the log of system    *)
(* calls after it, and the injected fault that struck.  f is the fault the *)
(* environment injects while this entry is processed: the system call of   *)
(* that name fails if it is issued.                                        *)
(***************************************************************************)
Call(op, path, idx) == [op |-> op, path |-> path, idx |-> idx]
Res(msg, fs, calls, hit) == [msg |-> msg, fs |-> fs, calls |-> calls, hit |-> hit]

\* what the entry returns once os.MkdirAll has (m) or would have run
MkdirDone(fs, m, c, f, msg) ==
    IF f = "mkdirall" THEN Res(msg, fs, c, f)
    ELSE IF ~m.ok THEN Res(msg, m.fs, c, "none")
    ELSE Res("", m.fs, c, "none")

\* os.MkdirAll(path, mode) as a whole entry
MkdirEntry(fs, calls, idx, path, mode, f, msg) ==
    MkdirDone(fs, MkdirAllFS(fs, path, mode), Append(calls, Call("mkdirall", path, idx)), f, msg)

\* what the entry returns once os.Symlink has (m) or would have run
SymlinkDone(fs, m, c, f) ==
    IF f = "symlink" THEN Res("symlink", fs, c, f)
    ELSE IF ~m.ok THEN Res("symlink", fs, c, "none")
    ELSE Res("", m.fs, c, "none")

\* os.Symlink(linkTarget, path) as a whole entry
SymlinkEntry(fs, calls, idx, target, path, f) ==
    SymlinkDone(fs, SymlinkFS(fs, target, path), Append(calls, Call("symlink", path, idx)), f)

\* the blocks that reached the file when the deferred outFile.Close() fails:
\* the last one was still to be written back
WrittenBack(data) == SubSeq(data, 1, Len(data) - 1)

\* the copy of MultiExtractor.extractFile and of copyFile: io.Copy to the
\* file, then the deferred outFile.Close(), whose error is dropped
CopyDirect(fs, calls, idx, path, data, f) ==
    LET c == Append(calls, Call("write", path, idx))
    IN  IF f = "read" THEN Res("failed to write file", fs, calls, f)
        ELSE IF data = <<>> THEN Res("", fs, calls, IF f = "close" THEN f ELSE "none")
        ELSE IF f = "write" THEN Res("failed to write file", fs, c, f)
        ELSE IF f = "close" THEN Res("", WriteFS(fs, path, WrittenBack(data)), c, f)
        ELSE Res("", WriteFS(fs, path, data), c, "none")

\* the copy of extractFileOptimized: io.CopyBuffer calls ReadFrom of the
\* bufio.Writer, which has nothing buffered and calls ReadFrom of the
\* os.File: the blocks are written to the file during the copy and the
\* deferred Flush has nothing to write
CopyBuffered(fs, calls, idx, path, data, f) == CopyDirect(fs, calls, idx, path, data, f)

\* extractFileOptimized from its os.OpenFile on: o is the outcome of the
\* call on the filesystem mfs
CopyOpened(buffered, mfs, o, c2, idx, path, data, f) ==
    IF f = "openfile" THEN Res("failed to create file", mfs, c2, f)
    ELSE IF ~o.ok THEN Res("failed to create file", mfs, c2, "none")
    ELSE IF buffered THEN CopyBuffered(o.fs, c2, idx, path, data, f)
    ELSE CopyDirect(o.fs, c2, idx, path, data, f)

\* extractFileOptimized from its os.MkdirAll on: m is the outcome of the call
CreateUnder(buffered, fs, m, c1, idx, path, mode, data, f) ==
    IF f = "mkdirall" THEN Res("failed to create directory for file", fs, c1, f)
    ELSE IF ~m.ok THEN Res("failed to create directory for file", m.fs, c1, "none")
    ELSE CopyOpened(buffered, m.fs, OpenFileFS(m.fs, path, mode),
                    Append(c1, Call("openfile", path, idx)), idx, path, data, f)

\* extractFileOptimized (buffered = TRUE), MultiExtractor.extractFile and
\* copyFile (buffered = FALSE)
extractFileOptimized(buffered, fs, calls, idx, path, mode, data, f) ==
    CreateUnder(buffered, fs, MkdirAllFS(fs, Dir(path), DirPerm),
                Append(calls, Call("mkdirall", Dir(path), idx)), idx, path, mode, data, f)

\* extractTarEntryOptimized; MultiExtractor.extractTarEntry is the same text
\* over extractFile (buffered = FALSE)
extractTarEntryOptimized(buffered, fs, calls, idx, e, dst, f) ==
    LET path == Join(dst, e.name)
    IN  IF IsCurrentDir(e.name) THEN Res("", fs, calls, "none")
        ELSE IF ~PathAdmitted(dst, e.name) THEN Res("invalid file path", fs, calls, "none")
        ELSE IF TarType(e) = "dir" THEN MkdirEntry(fs, calls, idx, path, e.mode, f, "mkdir")
        ELSE IF TarType(e) = "reg"
        THEN extractFileOptimized(buffered, fs, calls, idx, path, e.mode, e.data, f)
        ELSE IF TarType(e) = "symlink"
        THEN IF ~SymlinkTargetOK(dst, e.link)
             THEN Res("invalid symlink target", fs, calls, "none")
             ELSE SymlinkEntry(fs, calls, idx, e.link, path, f)
        ELSE Res("", fs, calls, "none")

\* extractZipEntryOptimized; MultiExtractor.extractZipEntry is the same text
\* over extractFile (buffered = FALSE)
extractZipEntryOptimized(buffered, fs, calls, idx, e, dst, f) ==
    LET path == Join(dst, e.name)
    IN  IF IsCurrentDir(e.name) THEN Res("", fs, calls, "none")
        ELSE IF ~PathAdmitted(dst, e.name) THEN Res("invalid file path", fs, calls, "none")
        ELSE IF ZipIsDir(e) THEN MkdirEntry(fs, calls, idx, path, e.mode, f, "mkdir")
        ELSE IF f = "corrupt" THEN Res("failed to open zip file entry", fs, calls, f)
        ELSE extractFileOptimized(buffered, fs, calls, idx, path, e.mode, e.data, f)

\* the error of package os behind a wrapped message
OsError(msg) ==
    IF msg = "failed to create directory for file" THEN "mkdir"
    ELSE IF msg = "failed to create file" THEN "open"
    ELSE IF msg = "failed to write file" THEN "write"
    ELSE msg

\* copyFile: the calls of extractFile, the errors returned unwrapped
copyFile(fs, calls, idx, path, mode, data, f) ==
    [extractFileOptimized(FALSE, fs, calls, idx, path, mode, data, f)
        EXCEPT !.msg = OsError(@)]

\* tarExtractor.extractEntry
extractEntry(fs, calls, idx, e, dst, f) ==
    LET path == Join(dst, e.name)
    IN  IF ~inside(dst, path) THEN Res("illegal path", fs, calls, "none")
        ELSE IF TarType(e) = "dir" THEN MkdirEntry(fs, calls, idx, path, e.mode, f, "mkdir")
        ELSE IF TarType(e) = "reg"
        THEN copyFile(fs, calls, idx, path, e.mode, e.data, f)
        ELSE IF TarType(e) = "symlink"
        THEN IF ~SymlinkTargetInside(dst, path, e.link)
             THEN Res("illegal symlink target", fs, calls, "none")
             ELSE SymlinkEntry(fs, calls, idx, e.link, path, f)
        ELSE Res("", fs, calls, "none")

\* zipExtractor.extractFile
extractFile(fs, calls, idx, e, dst, f) ==
    LET path == Join(dst, e.name)
    IN  IF ~inside(dst, path) THEN Res("illegal path", fs, calls, "none")
        ELSE IF ZipIsDir(e) THEN MkdirEntry(fs, calls, idx, path, e.mode, f, "mkdir")
        ELSE IF f = "corrupt" THEN Res("open", fs, calls, f)
        ELSE copyFile(fs, calls, idx, path, e.mode, e.data, f)

(***************************************************************************)
(* One call of Extract(src, dst).                                          *)
(***************************************************************************)
VARIABLES
    extractor,  \* the implementation Extract was called on
    engine,     \* the implementation running now (a fallback changes it)
    dst,        \* the destination root, as the caller spelled it
    src,        \* the source stream: [head, len, ustar]
    archive,    \* the entries the source decodes to, in archive order
    phase,      \* where the call is
    format,     \* the sniffed format
    err,        \* the error Extract returns: [msg, entry, wrapped]
    srcPos,     \* bytes read from the source reader so far
    decIn,      \* the byte ranges <<from, to>> of the source the decoder reads
    pos,        \* entries read from the decoder so far
    calls,      \* the filesystem calls issued below dst, in order
    fs,         \* the filesystem
    fault,      \* the injected fault that struck in the last step
    tmp,        \* the temporary spill file: "none", "open", "closed", "removed"
                \* (closed and removed)
    swallowed,  \* an error of a system call was dropped and Extract went on
    run,        \* the number of this call of Extract on the same source and root
    prev,       \* the filesystem the previous call left
    cancelled,  \* the caller has raised its cancellation signal
    job,        \* the calls of Extract that run side by side, by goroutine
    disk,       \* the filesystem they share
    temps,      \* the names in os.TempDir()
    inst,       \* one call of Installer.Install
    call        \* one call of a function of the packages release and config

\* the calls that run side by side
conc == <<job, disk, temps>>

\* what the caller holds: no step of Extract reads or changes it
outside == <<run, prev, cancelled, conc, inst, call>>

vars == <<extractor, engine, dst, src, archive, phase, format, err, srcPos,
          decIn, pos, calls, fs, fault, tmp, swallowed, outside>>

NoErr == [msg |-> "", entry |-> <<>>, wrapped |-> FALSE]
\* fmt.Errorf("...: %w", err) outside the entry loop
Failure(msg) == [msg |-> msg, entry |-> <<>>, wrapped |-> FALSE]
\* fmt.Errorf("failed to extract tar entry %s: %w", header.Name, err)
EntryFailure(msg, name) == [msg |-> msg, entry |-> name, wrapped |-> TRUE]

\* no decoder was started
NoInput == <<>>
\* a reader that first replays the source's first `replay` bytes and then
\* reads on from offset `resume` of a source of n bytes
Input(replay, resume, n) ==
    IF replay = resume THEN << <<0, n>> >>
    ELSE IF resume = n THEN << <<0, replay>> >>
    ELSE << <<0, replay>>, <<resume, n>> >>

\* defer os.Remove(tempFile) / defer os.Remove(tmp.Name()); defer tmp.Close()
TmpAtReturn(t) == IF t \in {"open", "closed"} THEN "removed" ELSE t

(***************************************************************************)
(* The inputs.                                                             *)
(***************************************************************************)
MaxEntries == 2
MaxSegs == 2

Engines == {"optimized", "legacy", "peek", "system", "cached"}

Bytes == {0, 3, 4, 31, 75, 80, 139}
\* the third and fourth byte are compared with 3 and 4 only
Heads == {h \in UNION {[1..n -> Bytes] : n \in 0..4} :
             \A i \in 3..Len(h) : h[i] \in {0, 3, 4}}
GzHead == <<31, 139, 0, 0>>
ZipHead == <<80, 75, 3, 4>>

\* lengths of a source that has more than its four head bytes
LongLens == {5, 600, 5000, 70000}
Sources ==
    {[head |-> h, len |-> Len(h), ustar |-> FALSE] : h \in Heads}
    \cup {[head |-> h, len |-> n, ustar |-> FALSE] :
             h \in {g \in Heads : Len(g) = 4}, n \in {600}}
    \cup {[head |-> h, len |-> n, ustar |-> u] :
             h \in {GzHead, ZipHead, <<0, 0, 0, 0>>, <<75, 80, 3, 4>>},
             n \in LongLens, u \in BOOLEAN}

\* an entry with the mode the test archives give its kind
Entry(name, kind, link, data) ==
    [name |-> name, kind |-> kind, link |-> link, data |-> data,
     mode |-> IF kind = "reg" THEN FilePerm ELSE DirPerm]
\* the entry with other permission bits
WithMode(e, mode) == [e EXCEPT !.mode = mode]
DirEntry(name) == Entry(name, "dir", <<>>, <<>>)
RegEntry(name, data) == Entry(name, "reg", <<>>, data)
LinkEntry(name, link) == Entry(name, "symlink", link, <<>>)
OtherEntry(name) == Entry(name, "other", <<>>, <<>>)
\* a directory packed with the permission bits 0555
ReadOnlyDir(name) == WithMode(DirEntry(name), 365)

Hello == <<"Hello, World!">>
\* a content of two buffers
TwoBlocks == <<"Nested file", " content">>

\* destination roots: /dst, dst, ./dst, ., / and /dst/
Roots == { <<Sep, "d">>, <<"d">>, <<Dot, Sep, "d">>, <<Dot>>, <<Sep>>, <<Sep, "d", Sep>> }

\* entry names of up to MaxSegs elements among "..", "a" and "d-evil", also with
\* a leading slash, and the names the tests use
NameSegs == {DotDot, <<"a">>, <<"d", "e">>}
RelNames == {JoinSegs(q) : q \in UNION {[1..n -> NameSegs] : n \in 1..MaxSegs}}
Names ==
    RelNames \cup {<<Sep>> \o n : n \in RelNames}
    \cup { <<>>, <<Dot>>, <<Dot, Sep>>, <<Dot, Sep, "a">>, <<"a", Sep>>,
           <<Sep, "t", Sep, "p">>, DotDot \o <<Sep, "d", "e", Sep, "a">>,
           DotDot \o <<Sep>> \o DotDot \o <<Sep>> \o DotDot \o <<Sep, "t", Sep, "p">> }

\* symlink targets: the same shapes, and an inside name
LinkSegs == {DotDot, <<"x">>, <<"d", "e">>}
RelLinks == {JoinSegs(q) : q \in UNION {[1..n -> LinkSegs] : n \in 1..MaxSegs}}
Links == RelLinks \cup {<<Sep>> \o n : n \in RelLinks} \cup {<<Sep, "t", Sep, "p">>}

\* archives of one entry, and of a symlink below a directory entry
GuardTarArchives ==
    {<<DirEntry(n)>> : n \in Names}
    \cup {<<RegEntry(n, Hello)>> : n \in Names}
    \cup {<<OtherEntry(n)>> : n \in Names}
    \cup {<<LinkEntry(n, <<"x">>)>> : n \in Names}
    \cup {<<LinkEntry(<<"l">>, t)>> : t \in Links}
    \cup {<<DirEntry(<<"a", Sep, "b">>), LinkEntry(<<"a", Sep, "b", Sep, "l">>, t)>> : t \in Links}
GuardZipArchives ==
    {<<DirEntry(n)>> : n \in Names} \cup {<<RegEntry(n, Hello)>> : n \in Names}

\* archives of up to MaxEntries entries over a small alphabet
SeqTarEntries ==
    { DirEntry(<<Dot, Sep>>), RegEntry(<<"f">>, Hello), DirEntry(<<"s", Sep>>),
      ReadOnlyDir(<<"s", Sep>>), RegEntry(<<"s", Sep, "n">>, TwoBlocks),
      RegEntry(DotDot \o <<Sep, "x">>, Hello), LinkEntry(<<"l">>, <<"f">>),
      OtherEntry(<<"h">>) }
SeqZipEntries ==
    { DirEntry(<<Dot, Sep>>), RegEntry(<<"f">>, Hello), DirEntry(<<"s", Sep>>),
      ReadOnlyDir(<<"s", Sep>>), RegEntry(<<"s", Sep, "n">>, TwoBlocks),
      RegEntry(DotDot \o <<Sep, "x">>, Hello) }
\* a symlink and a file below it: the link points to /, to the root itself,
\* to a name that is not there, and to the parent of the root
LinkThenFileArchives ==
    {<<LinkEntry(<<"l">>, t), RegEntry(<<"l", Sep, "n">>, Hello)>> :
        t \in {<<Sep>>, <<Dot>>, <<"s">>, DotDot}}
SeqsOver(S) == UNION {[1..n -> S] : n \in 0..MaxEntries}

\* the sources of the entry families: archives of PeekHeaderLen bytes
GzSource == [head |-> GzHead, len |-> PeekHeaderLen, ustar |-> FALSE]
ZipSource == [head |-> ZipHead, len |-> PeekHeaderLen, ustar |-> FALSE]

Start(x, d, s, a) ==
    /\ extractor = x
    /\ engine = x
    /\ dst = d
    /\ src = s
    /\ archive = a
    /\ phase = "Init"
    /\ format = ""
    /\ err = NoErr
    /\ srcPos = 0
    /\ decIn = NoInput
    /\ pos = 0
    /\ calls = <<>>
    /\ fs = <<>>
    /\ fault = "none"
    /\ tmp = "none"
    /\ swallowed = FALSE
    /\ run = 1
    /\ prev = <<>>
    /\ cancelled = FALSE
    /\ job = <<>>
    /\ disk = <<>>
    /\ temps = {}
    /\ inst = <<>>
    /\ call = <<>>

\* every source, one small archive
InitSniff ==
    \E x \in Engines, s \in Sources :
        Start(x, <<Sep, "d">>, s, <<RegEntry(<<"f">>, Hello)>>)

\* every root and entry shape, one entry
InitGuard ==
    \E x \in Engines \ {"system"}, d \in Roots :
        \/ \E a \in GuardTarArchives : Start(x, d, GzSource, a)
        \/ \E a \in GuardZipArchives : Start(x, d, ZipSource, a)

\* sequences of entries
InitSeq ==
    \E x \in Engines \ {"system"} :
        \/ \E a \in SeqsOver(SeqTarEntries) : Start(x, <<Sep, "d">>, GzSource, a)
        \/ \E a \in SeqsOver(SeqZipEntries) : Start(x, <<Sep, "d">>, ZipSource, a)

\* a file written below a symlink the archive made
InitLink ==
    \E x \in Engines \ {"system"}, a \in LinkThenFileArchives :
        Start(x, <<Sep, "d">>, GzSource, a)

Init == InitSniff \/ InitGuard \/ InitSeq \/ InitLink

(***************************************************************************)
(* The steps of Extract.                                                   *)
(***************************************************************************)
\* Extract returns err
Fail(e) ==
    /\ phase' = "Failed"
    /\ err' = e
    /\ tmp' = TmpAtReturn(tmp)

\* os.MkdirAll(dst, 0755), the first statement of every Extract
PrepareDestination ==
    /\ phase = "Init"
    /\ \E f \in {"none", "mkdirall"} :
          \E m \in {MkdirAllFS(fs, dst, DirPerm)} :
              /\ calls' = Append(calls, Call("mkdirall", dst, 0))
              /\ fault' = f
              /\ IF f = "none" /\ m.ok
                 THEN /\ fs' = m.fs
                      /\ phase' = "DestinationPrepared"
                      /\ UNCHANGED <<err, tmp>>
                 ELSE /\ fs' = fs
                      /\ Fail(Failure("failed to create destination directory"))
    /\ UNCHANGED <<extractor, engine, dst, src, archive, format, srcPos, decIn, pos>>
    /\ UNCHANGED <<swallowed, outside>>

\* OptimizedExtractor.Extract: Peek(4) on a bufio.Reader of BufferSize bytes,
\* then detectFormatFromBytes and the format switch
SniffOptimized ==
    /\ engine = "optimized"
    /\ phase = "DestinationPrepared"
    /\ \E f \in {"none", "read"}, ra \in ReadAheads(PeekLen, BufferSize, src.len) :
          /\ fault' = f
          /\ IF f = "read"
             THEN /\ srcPos' = srcPos
                  /\ format' = format
                  /\ Fail(Failure("failed to peek archive data"))
             ELSE /\ srcPos' = ra
                  /\ IF src.len < PeekLen
                     THEN /\ format' = format
                          /\ Fail(Failure("failed to peek archive data"))
                     ELSE /\ format' = detectFormatFromBytes(src.head)
                          /\ IF format' \in {"tar.gz", "tgz", "zip"}
                             THEN /\ phase' = "FormatDetected"
                                  /\ UNCHANGED <<err, tmp>>
                             ELSE Fail(Failure("unsupported archive format"))
    /\ UNCHANGED <<extractor, engine, dst, src, archive, decIn, pos, calls, fs>>
    /\ UNCHANGED <<swallowed, outside>>

\* MultiExtractor.Extract (io.ReadAll variant): read everything, detectFormat
SniffLegacy ==
    /\ engine = "legacy"
    /\ phase = "DestinationPrepared"
    /\ \E f \in {"none", "read"} :
          /\ fault' = f
          /\ IF f = "read"
             THEN /\ srcPos' = srcPos
                  /\ format' = format
                  /\ Fail(Failure("failed to read source data"))
             ELSE /\ srcPos' = src.len
                  /\ format' = detectFormat(src.head).format
                  /\ IF detectFormat(src.head).msg # ""
                     THEN Fail(Failure(detectFormat(src.head).msg))
                     ELSE /\ phase' = "FormatDetected"
                          /\ UNCHANGED <<err, tmp>>
    /\ UNCHANGED <<extractor, engine, dst, src, archive, decIn, pos, calls, fs>>
    /\ UNCHANGED <<swallowed, outside>>

\* peekReader: Peek(n) on a bufio.Reader of the default size that is then
\* dropped; the bytes it read stay read
peekReader(n, f, ra) ==
    /\ fault' = f
    /\ srcPos' = IF f = "read" THEN srcPos ELSE ra

\* MultiExtractor.Extract (peeking variant): peekReader(src, 512), detectFormat
SniffPeek ==
    /\ engine = "peek"
    /\ phase = "DestinationPrepared"
    /\ \E f \in {"none", "read"}, ra \in ReadAheads(PeekHeaderLen, DefaultBufSize, src.len) :
          /\ peekReader(PeekHeaderLen, f, ra)
          /\ IF f = "read" \/ src.len < PeekHeaderLen
             THEN /\ format' = format
                  /\ Fail(Failure("peek header"))
             ELSE /\ format' = detectFormatPeek(src.head, src.ustar)
                  /\ IF format' \in {"zip", "tar", "tar.gz", "tgz"}
                     THEN /\ phase' = "FormatDetected"
                          /\ UNCHANGED <<err, tmp>>
                     ELSE Fail(Failure("unsupported archive format"))
    /\ UNCHANGED <<extractor, engine, dst, src, archive, decIn, pos, calls, fs>>
    /\ UNCHANGED <<swallowed, outside>>

\* SystemExtractor.createTempFile
createTempFile ==
    /\ engine = "system"
    /\ phase = "DestinationPrepared"
    /\ tmp = "none"
    /\ \E f \in {"none", "temp", "read", "write"} :
          /\ fault' = f
          /\ IF f = "none"
             THEN /\ tmp' = "closed"
                  /\ srcPos' = src.len
                  /\ UNCHANGED <<phase, err>>
             ELSE /\ srcPos' = srcPos
                  /\ phase' = "Failed"
                  /\ err' = Failure(IF f = "temp" THEN "failed to create temp file"
                                    ELSE "failed to write temp file")
                  /\ tmp' = IF f = "temp" THEN "none" ELSE "removed"
    /\ UNCHANGED <<extractor, engine, dst, src, archive, format, decIn, pos, calls, fs>>
    /\ UNCHANGED <<swallowed, outside>>

\* SystemExtractor.detectFormatFromFile: one Read into a 4-byte buffer
detectFormatFromFile ==
    /\ engine = "system"
    /\ phase = "DestinationPrepared"
    /\ tmp = "closed"
    /\ \E f \in {"none", "open", "read"} :
          /\ fault' = f
          /\ IF f # "none" \/ src.len = 0
             THEN /\ format' = format
                  /\ Fail(Failure("failed to detect format"))
             ELSE /\ format' = detectFormatFromBytes(ReadInto4(src.head))
                  /\ phase' = "FormatDetected"
                  /\ UNCHANGED <<err, tmp>>
    /\ UNCHANGED <<extractor, engine, dst, src, archive, srcPos, decIn, pos, calls, fs>>
    /\ UNCHANGED <<swallowed, outside>>

\* extractWithTar / extractZipLinux with the tool on the PATH: the system
\* command is started on the temporary file
RunSystemCommand ==
    /\ engine = "system"
    /\ phase = "FormatDetected"
    /\ format \in {"tar.gz", "tgz", "zip"}
    /\ decIn' = Input(srcPos, srcPos, src.len)
    /\ phase' = "Streaming"
    /\ fault' = "none"
    /\ UNCHANGED <<extractor, engine, dst, src, archive, format, err, srcPos, pos,
                   calls, fs, tmp>>
    /\ UNCHANGED <<swallowed, outside>>

\* cmd.CombinedOutput returns: Extract returns nil, or the command's error
SystemCommandExit ==
    /\ engine = "system"
    /\ phase = "Streaming"
    /\ \E ok \in BOOLEAN :
          /\ fault' = IF ok THEN "none" ELSE "command"
          /\ IF ok
             THEN /\ phase' = "Completed"
                  /\ err' = NoErr
                  /\ tmp' = TmpAtReturn(tmp)
             ELSE Fail(Failure(IF format = "zip" THEN "unzip command failed"
                               ELSE "tar command failed"))
    /\ UNCHANGED <<extractor, engine, dst, src, archive, format, srcPos, decIn, pos,
                   calls, fs>>
    /\ UNCHANGED <<swallowed, outside>>

\* the "Fallback to Go implementation" branches of SystemExtractor: the
\* temporary file is opened and handed to a new OptimizedExtractor
FallbackToOptimized ==
    /\ engine = "system"
    /\ phase = "FormatDetected"
    /\ \E f \in {"none", "open"} :
          /\ fault' = f
          /\ IF f = "open"
             THEN /\ Fail(Failure(IF format = "" THEN "failed to open temp file"
                                    ELSE "open"))
                  /\ UNCHANGED <<engine, srcPos>>
             ELSE /\ engine' = "optimized"
                  /\ phase' = "Init"
                  /\ srcPos' = 0
                  /\ UNCHANGED <<err, tmp>>
    /\ UNCHANGED <<extractor, dst, src, archive, format, decIn, pos, calls, fs>>
    /\ UNCHANGED <<swallowed, outside>>

\* extractTarGzStream / extractZipFromReader up to the entry loop: the
\* decoder is created on the buffered reader
StartDecoderOptimized ==
    /\ engine = "optimized"
    /\ phase = "FormatDetected"
    /\ decIn' = Input(srcPos, srcPos, src.len)
    /\ srcPos' = src.len
    /\ \E f \in {"none", "read", "corrupt"} :
          /\ fault' = f
          /\ IF f = "none" /\ src.len > PeekLen
             THEN /\ phase' = "Streaming"
                  /\ UNCHANGED <<err, tmp>>
             ELSE Fail(Failure(IF format = "zip"
                               THEN (IF f = "read" THEN "failed to read zip data"
                                     ELSE "failed to create zip reader")
                               ELSE "failed to create gzip reader"))
    /\ UNCHANGED <<extractor, engine, dst, src, archive, format, pos, calls, fs>>
    /\ UNCHANGED <<swallowed, outside>>

\* MultiExtractor.extractTarGz / extractZip up to the entry loop: the decoder
\* is created on the bytes io.ReadAll returned
StartDecoderLegacy ==
    /\ engine = "legacy"
    /\ phase = "FormatDetected"
    /\ decIn' = Input(srcPos, srcPos, src.len)
    /\ srcPos' = src.len
    /\ \E f \in {"none", "corrupt"} :
          /\ fault' = f
          /\ IF f = "none" /\ src.len > PeekLen
             THEN /\ phase' = "Streaming"
                  /\ UNCHANGED <<err, tmp>>
             ELSE Fail(Failure(IF format = "zip" THEN "failed to create zip reader"
                               ELSE "failed to create gzip reader"))
    /\ UNCHANGED <<extractor, engine, dst, src, archive, format, pos, calls, fs>>
    /\ UNCHANGED <<swallowed, outside>>

\* io.MultiReader(bytes.NewReader(peek), src): the peeked header, then what
\* the source reader still has
MultiReader == Input(PeekHeaderLen, srcPos, src.len)

\* the peeking MultiExtractor.Extract from the MultiReader on, and
\* zipExtractor.Extract / tarExtractor.Extract up to the entry loop
StartDecoderPeek ==
    /\ engine = "peek"
    /\ phase = "FormatDetected"
    /\ decIn' = MultiReader
    /\ srcPos' = src.len
    /\ \E f \in {"none", "temp", "read", "corrupt"}
                   \cup (IF format = "zip" THEN {"seek"} ELSE {}) :
          /\ fault' = f
          /\ IF f = "none"
             THEN /\ phase' = "Streaming"
                  /\ tmp' = IF format = "zip" THEN "open" ELSE tmp
                  /\ err' = err
             ELSE /\ phase' = "Failed"
                  /\ err' = Failure(IF format = "zip"
                                    THEN (IF f = "corrupt" THEN "zip reader" ELSE "temp")
                                    ELSE IF format = "tar" THEN "tar read" ELSE "gzip")
                  /\ tmp' = IF format = "zip" /\ f = "seek" THEN "open"
                            ELSE IF format = "zip" /\ f # "temp" THEN "removed"
                            ELSE tmp
    /\ UNCHANGED <<extractor, engine, dst, src, archive, format, pos, calls, fs>>
    /\ UNCHANGED <<swallowed, outside>>

\* the caching MultiExtractor.Extract: writeToTemp(src) spills the source to
\* a temporary file and rewinds it; the deferred Remove and Close are
\* registered once it has returned the file
writeToTemp ==
    /\ engine = "cached"
    /\ phase = "DestinationPrepared"
    /\ tmp = "none"
    /\ \E f \in {"none", "temp", "read", "seek"} :
          /\ fault' = f
          /\ IF f = "none"
             THEN /\ tmp' = "open"
                  /\ srcPos' = src.len
                  /\ UNCHANGED <<phase, err>>
             ELSE /\ srcPos' = IF f = "seek" THEN src.len ELSE srcPos
                  /\ phase' = "Failed"
                  /\ err' = Failure(f)
                  /\ tmp' = IF f = "temp" THEN "none"
                            ELSE IF f = "read" THEN "removed"
                            ELSE "open"
    /\ UNCHANGED <<extractor, engine, dst, src, archive, format, decIn, pos, calls, fs>>
    /\ UNCHANGED <<swallowed, outside>>

\* the caching MultiExtractor.Extract: detectFormat(tmp, size) reads the
\* first 4 bytes of the file with ReadAt
SniffCached ==
    /\ engine = "cached"
    /\ phase = "DestinationPrepared"
    /\ tmp = "open"
    /\ \E f \in {"none", "read"} :
          /\ fault' = f
          /\ IF f = "read" \/ src.len < PeekLen
             THEN /\ format' = format
                  /\ Fail(Failure("failed to read file header"))
             ELSE /\ format' = detectFormat(src.head).format
                  /\ IF detectFormat(src.head).msg # ""
                     THEN Fail(Failure(detectFormat(src.head).msg))
                     ELSE /\ phase' = "FormatDetected"
                          /\ UNCHANGED <<err, tmp>>
    /\ UNCHANGED <<extractor, engine, dst, src, archive, srcPos, decIn, pos, calls, fs>>
    /\ UNCHANGED <<swallowed, outside>>

\* the caching MultiExtractor.extractTarGz / extractZip up to the entry
\* loop: the file is rewound and the decoder created on it
StartDecoderCached ==
    /\ engine = "cached"
    /\ phase = "FormatDetected"
    /\ \E f \in {"none", "seek", "corrupt"} :
          /\ fault' = f
          /\ decIn' = IF f = "seek" THEN decIn ELSE Input(0, 0, src.len)
          /\ IF f = "none" /\ src.len > PeekLen
             THEN /\ phase' = "Streaming"
                  /\ UNCHANGED <<err, tmp>>
             ELSE Fail(Failure(IF f = "seek" THEN "seek"
                               ELSE IF format = "zip" THEN "create zip reader"
                               ELSE "create gzip reader"))
    /\ UNCHANGED <<extractor, engine, dst, src, archive, format, srcPos, pos, calls, fs>>
    /\ UNCHANGED <<swallowed, outside>>

\* the faults that can strike while entry e is processed: a corrupt record,
\* and a failure of a system call its kind can issue
EntryFaults(e) ==
    {"none", "corrupt"}
    \cup (IF e.kind \in {"dir", "reg"} THEN {"mkdirall"} ELSE {})
    \cup (IF e.kind = "reg" THEN {"openfile", "read", "write", "close"} ELSE {})
    \cup (IF e.kind = "symlink" THEN {"symlink"} ELSE {})

\* what materializing entry e does, by implementation and format
Materialize(eng, fmt, e, idx, f) ==
    IF eng = "peek"
    THEN IF fmt = "zip" THEN extractFile(fs, calls, idx, e, dst, f)
         ELSE extractEntry(fs, calls, idx, e, dst, f)
    ELSE IF fmt = "zip" THEN extractZipEntryOptimized(eng = "optimized", fs, calls, idx, e, dst, f)
         ELSE extractTarEntryOptimized(eng = "optimized", fs, calls, idx, e, dst, f)

\* one turn of the entry loop: read the next entry, materialize it, and
\* return the wrapped error if that fails
ExtractEntry ==
    /\ engine \in {"optimized", "legacy", "peek", "cached"}
    /\ phase = "Streaming"
    /\ pos < Len(archive)
    /\ pos' = pos + 1
    /\ \E f \in EntryFaults(archive[pos + 1]) :
          IF f = "corrupt" /\ format # "zip"
          THEN /\ fault' = f
               /\ Fail(Failure("failed to read tar entry"))
               /\ UNCHANGED <<calls, fs, swallowed>>
          ELSE \E r \in {Materialize(engine, format, archive[pos + 1], pos + 1, f)} :
                  /\ fault' = r.hit
                  /\ calls' = r.calls
                  /\ fs' = r.fs
                  /\ swallowed' = (swallowed \/ (r.msg = "" /\ r.hit # "none"))
                  /\ IF r.msg = ""
                     THEN UNCHANGED <<phase, err, tmp>>
                     ELSE Fail(EntryFailure(r.msg, archive[pos + 1].name))
    /\ UNCHANGED <<extractor, engine, dst, src, archive, format, srcPos, decIn>>
    /\ UNCHANGED outside

\* a return of nil from inside the entry loop
FinishInLoop ==
    /\ engine \in {"optimized", "legacy", "peek", "cached"}
    /\ phase = "Streaming"
    /\ phase' = "Completed"
    /\ tmp' = TmpAtReturn(tmp)
    /\ fault' = "none"
    /\ UNCHANGED <<extractor, engine, dst, src, archive, format, err, srcPos,
                   decIn, pos, calls, fs>>
    /\ UNCHANGED <<swallowed, outside>>

\* the entry loop ends (io.EOF from tarReader.Next, the end of reader.File):
\* Extract returns nil
Finish ==
    /\ engine \in {"optimized", "legacy", "peek", "cached"}
    /\ phase = "Streaming"
    /\ pos = Len(archive)
    /\ phase' = "Completed"
    /\ tmp' = TmpAtReturn(tmp)
    /\ fault' = "none"
    /\ UNCHANGED <<extractor, engine, dst, src, archive, format, err, srcPos,
                   decIn, pos, calls, fs>>
    /\ UNCHANGED <<swallowed, outside>>

\* the destination roots of the callers that call twice or cancel
CallerRoots == {<<Sep, "d">>}

\* the caller calls Extract once more, with the same source and the same
\* destination root, after a call it did not cancel returned nil
ExtractAgain ==
    /\ phase = "Completed"
    /\ extractor # "system"
    /\ dst \in CallerRoots
    /\ ~cancelled
    /\ run = 1
    /\ run' = 2
    /\ prev' = fs
    /\ engine' = extractor
    /\ phase' = "Init"
    /\ format' = ""
    /\ err' = NoErr
    /\ srcPos' = 0
    /\ decIn' = NoInput
    /\ pos' = 0
    /\ calls' = <<>>
    /\ fault' = "none"
    /\ tmp' = "none"
    /\ UNCHANGED <<extractor, dst, src, archive, fs, swallowed, cancelled, conc, inst, call>>

\* the caller raises its cancellation signal while its first call of Extract
\* is in its entry loop; Extract(src io.Reader, dst string) has no parameter
\* that carries it
Cancel ==
    /\ phase = "Streaming"
    /\ dst \in CallerRoots
    /\ run = 1
    /\ ~cancelled
    /\ cancelled' = TRUE
    /\ UNCHANGED <<extractor, engine, dst, src, archive, phase, format, err, srcPos,
                   decIn, pos, calls, fs, fault, tmp, swallowed, run, prev, conc, inst, call>>

Next ==
    \/ PrepareDestination
    \/ SniffOptimized
    \/ SniffLegacy
    \/ SniffPeek
    \/ createTempFile
    \/ detectFormatFromFile
    \/ RunSystemCommand
    \/ SystemCommandExit
    \/ FallbackToOptimized
    \/ StartDecoderOptimized
    \/ StartDecoderLegacy
    \/ StartDecoderPeek
    \/ writeToTemp
    \/ SniffCached
    \/ StartDecoderCached
    \/ ExtractEntry
    \/ Finish
    \/ ExtractAgain
    \/ Cancel

Spec == Init /\ [][Next]_vars

(***************************************************************************)
(* The properties.  They are stated over the elements of canonical paths,  *)
(* not over the strings the guards compare.                                *)
(***************************************************************************)
\* p is the root or a descendant of it, element by element
Descends(root, p) ==
    /\ IsAbs(Clean(root)) = IsAbs(Clean(p))
    /\ Len(ElemsOf(Clean(root))) <= Len(ElemsOf(Clean(p)))
    /\ \A i \in 1..Len(ElemsOf(Clean(root))) :
          ElemsOf(Clean(p))[i] = ElemsOf(Clean(root))[i]
    /\ \/ Len(ElemsOf(Clean(p))) = Len(ElemsOf(Clean(root)))
       \/ ElemsOf(Clean(p))[Len(ElemsOf(Clean(root))) + 1] # DotDot

\* the declared path of an entry leaves the destination root
Escapes(root, name) == ~Descends(root, Join(root, name))

\* the system calls issued for entry k
CallsOf(k) == {i \in 1..Len(calls) : calls[i].idx = k}

\* entry k was read from the decoder
Decoded(k) ==
    /\ k \in 1..pos
    /\ ~(k = pos /\ fault = "corrupt" /\ format # "zip")

\* the path-rejected error of the implementation that ran
PathRejectedMsg == IF engine = "peek" THEN "illegal path" ELSE "invalid file path"

\* Extract returned the path-rejected error for entry k
RejectedAt(k) ==
    /\ k = pos
    /\ phase = "Failed"
    /\ err = EntryFailure(PathRejectedMsg, archive[k].name)

PointsTo(root, e) ==
    IF IsAbs(e.link) THEN Clean(e.link)
    ELSE Join(Dir(Join(root, e.name)), e.link)

\* Extract returned a target-rejected error for entry k
TargetRejectedAt(k) ==
    /\ k = pos
    /\ phase = "Failed"
    /\ err.entry = archive[k].name
    /\ err.msg \in {"invalid symlink target", "illegal symlink target"}

\* C2: the target of a symlink entry is validated before the link is
\* created, read from the link's own directory: a target that points
\* outside the destination root is rejected and no call is issued for the
\* entry; a target that points inside the root is not rejected, however the
\* root is spelled
C2_SymlinkTargetValidated ==
    \A k \in 1..pos :
        /\ Decoded(k)
        /\ format # "zip"
        /\ TarType(archive[k]) = "symlink"
        /\ ~Escapes(dst, archive[k].name)
        /\ ~RejectedAt(k)
        => IF Descends(dst, PointsTo(dst, archive[k]))
           THEN ~TargetRejectedAt(k)
           ELSE CallsOf(k) = {} /\ TargetRejectedAt(k)

\* C3: an entry whose archive path is absolute is rejected: Extract fails
\* for it and no call is issued for it, so the path is not re-rooted under
\* the destination root either
C3_AbsoluteEntryRejected ==
    \A k \in 1..pos :
        Decoded(k) /\ IsAbs(archive[k].name)
            => /\ CallsOf(k) = {}
               /\ k = pos
               /\ phase = "Failed"
               /\ err.wrapped
               /\ err.entry = archive[k].name

\* the errors that report a source too short to sniff
TruncatedMsgs ==
    {"file too small to detect format", "failed to peek archive data",
     "failed to detect format", "peek header", "failed to read file header"}

\* Extract returned msg with no fault injected in its last step
ReturnedOnItsOwn ==
    /\ phase = "Failed"
    /\ fault = "none"
    /\ err.msg # "failed to create destination directory"

\* C5: a source of fewer than 4 bytes is never classified: sniffing ends in
\* a truncated-input error, which is not the unknown-format error, and no
\* decoder is started
C5_ShortSourceTruncated ==
    src.len < PeekLen
        => /\ format = ""
           /\ decIn = NoInput
           /\ phase \notin {"Streaming", "Completed"}
           /\ ReturnedOnItsOwn => err.msg \in TruncatedMsgs

\* the format the rules give for a prefix of at least 4 bytes, in order
FormatOf(head) ==
    IF head[1] = 31 /\ head[2] = 139 THEN "tar.gz"
    ELSE IF head[1] = 80 /\ head[2] = 75 /\ head[3] = 3 /\ head[4] = 4 THEN "zip"
    ELSE ""

C7_DecoderReadsWholeSource ==
    decIn # NoInput => decIn = << <<0, src.len>> >>

\* the formats a decoder exists for
Decodable == {"tar.gz", "tgz", "zip", "tar"}

\* the steps a run of Extract may take from phase to phase; the fallback of
\* SystemExtractor calls Extract of a new OptimizedExtractor, a run of its
\* own that starts at Init
PhaseStep ==
    \/ phase = "Init" /\ phase' \in {"DestinationPrepared", "Failed"}
    \/ phase = "DestinationPrepared"
          /\ phase' \in {"DestinationPrepared", "FormatDetected", "Failed"}
    \/ phase = "FormatDetected" /\ format \in Decodable
          /\ phase' \in {"Streaming", "Failed"}
    \/ phase = "FormatDetected" /\ format \notin Decodable /\ phase' = "Failed"
    \/ phase = "FormatDetected" /\ engine = "system" /\ engine' = "optimized"
          /\ phase' = "Init"
    \/ phase = "Streaming" /\ phase' \in {"Streaming", "Completed", "Failed"}
    \/ phase = "Completed" /\ run' = run + 1 /\ phase' = "Init"

\* the destination root is a directory of the filesystem g, once g holds
\* anything
RootMade(g) == DOMAIN g # {} => StatKind(g, dst) = "dir"

\* what holds in every phase of a run
PhaseInv ==
    /\ \A i \in 1..Len(calls) :
          calls[i].idx >= 1 => calls[1] = Call("mkdirall", dst, 0)
    /\ pos > 0 \/ decIn # NoInput
          => format \in Decodable /\ phase \in {"Streaming", "Completed", "Failed"}
    /\ format \notin Decodable
          => /\ pos = 0
             /\ \A i \in 1..Len(calls) : calls[i].idx = 0
             /\ phase \notin {"Streaming", "Completed"}
    /\ phase = "Completed"
          => /\ err = NoErr
             /\ engine # "system" => pos = Len(archive)

\* C8: a run of Extract goes Init, DestinationPrepared, FormatDetected,
\* Streaming and ends Completed or Failed; the destination root is created
\* before any entry is written; no entry is read or written before the
\* format is classified; an unknown format leads to Failed with no entry
\* written; Completed is reached only at the end of the decoder's entries
\* and with no error
C8_PhaseOrder == [][PhaseStep /\ PhaseInv' /\ \A g \in {fs'} : RootMade(g)]_vars

\* a run over two entries is Completed
C8_Witness ==
    /\ phase = "Completed"
    /\ extractor = "optimized"
    /\ Len(archive) = 2
    /\ pos = 2
    /\ Len(calls) > 2

\* a system call of the entry read in this step failed, or its path was
\* rejected
EntryFailedInStep ==
    /\ phase = "Streaming"
    /\ engine # "system"
    /\ pos' = pos + 1
    /\ \/ fault' \in {"mkdirall", "openfile", "read", "write", "close", "symlink"}
       \/ fault' = "corrupt" /\ format = "zip"
       \/ /\ ~(fault' = "corrupt" /\ format # "zip")
          /\ Escapes(dst, archive[pos + 1].name)

\* C9: when materializing entry k fails, by a rejected path or an I/O
\* error, Extract returns in that step with an error that names the
\* entry's archive path; what was written before stays; and after Extract
\* has failed nothing more is read or written
C9_FailureAbortsExtract ==
    [][/\ phase # "Failed"
       /\ EntryFailedInStep
            => /\ phase' = "Failed"
               /\ err'.wrapped
               /\ err'.entry = archive[pos + 1].name
               /\ \A q \in DOMAIN fs : q \in DOMAIN fs']_vars

\* the names ./ and .
CurrentDirNames == { <<Dot, Sep>>, <<Dot>> }

\* the entry read in this step is a current-directory entry
SkippedInStep ==
    /\ phase = "Streaming"
    /\ engine \in {"optimized", "legacy"}
    /\ pos' = pos + 1
    /\ ~(fault' = "corrupt" /\ format # "zip")
    /\ archive[pos + 1].name \in CurrentDirNames

\* the entry read in this step is a regular file read after a
\* current-directory entry, no fault struck and no entry before it took the
\* write permission from a directory
SiblingInStep ==
    /\ phase = "Streaming"
    /\ engine \in {"optimized", "legacy"}
    /\ pos' = pos + 1
    /\ fault' = "none"
    /\ \E j \in 1..pos : archive[j].name \in CurrentDirNames
    /\ \A j \in 1..pos : Writable(archive[j].mode)
    /\ archive[pos + 1].kind = "reg"
    /\ ~EndsWithSep(archive[pos + 1].name)
    /\ ~Escapes(dst, archive[pos + 1].name)

\* the filesystem g holds the regular file of entry e with its content
Holds(g, e) ==
    /\ Resolve(g, Join(dst, e.name), TRUE) \in DOMAIN g
    /\ g[Resolve(g, Join(dst, e.name), TRUE)] = FileNode(e.data)

Sibling(root, name) ==
    /\ HasPrefix(Clean(Join(root, name)), Clean(root))
    /\ Escapes(root, name)

\* C4: the containment check is segment-aligned: an entry whose canonical
\* target lies in a sibling directory whose name starts with the root's
\* (root /dst, target /dst-evil/x) is never admitted, for tar and zip
\* entries of every implementation
C4_SiblingNeverAdmitted ==
    \A k \in 1..pos :
        Decoded(k) /\ Sibling(dst, archive[k].name)
            => CallsOf(k) = {} /\ RejectedAt(k)

\* root /dst, entry ../dst-evil/a of a zip archive: rejected
C4_Witness ==
    /\ pos = 1
    /\ dst = <<Sep, "d">>
    /\ Join(dst, archive[1].name) = <<Sep, "d", "e", Sep, "a">>
    /\ format = "zip"
    /\ RejectedAt(1)
    /\ CallsOf(1) = {}

\* C11: an entry whose archive path is empty is skipped like ".": no call is
\* issued for it (no open at the root, no mkdir of the root's parent) and
\* Extract does not fail at it
C11_EmptyNameSkipped ==
    \A k \in 1..pos :
        Decoded(k) /\ archive[k].name = <<>>
            => CallsOf(k) = {} /\ ~(k = pos /\ phase = "Failed")

\* C12: the second extraction of the same archive into the same root, after
\* a first one that succeeded with no error dropped, does not fail on its
\* own, and when it returns nil it leaves the tree the first one left
C12_Idempotent ==
    run = 2 /\ ~swallowed
        => /\ ~(phase = "Failed" /\ fault = "none")
           /\ phase = "Completed" => fs = prev

\* the name of an entry as a path of the packed tree: the elements of a
\* relative path with no ".", ".." or empty element
TreePath(name) == SplitSep(IF EndsWithSep(name) THEN SubSeq(name, 1, Len(name) - 1) ELSE name)

\* element list a is a proper prefix of element list b
Above(a, b) == Len(a) < Len(b) /\ SubSeq(b, 1, Len(a)) = a

\* the archive is a tree of directories and regular files as a packer
\* writes it: relative paths, each path once, a directory before what is
\* below it, files at the leaves
Packed(a) ==
    /\ a # <<>>
    /\ \A k \in 1..Len(a) :
          /\ a[k].kind \in {"dir", "reg"}
          /\ a[k].kind = "reg" => ~EndsWithSep(a[k].name)
          /\ a[k].name # <<>>
          /\ \A i \in 1..Len(TreePath(a[k].name)) :
                TreePath(a[k].name)[i] \notin {<<>>, <<Dot>>, DotDot}
    /\ \A j, k \in 1..Len(a) :
          /\ j # k => TreePath(a[j].name) # TreePath(a[k].name)
          /\ Above(TreePath(a[j].name), TreePath(a[k].name))
                => a[j].kind = "dir" /\ j < k

\* the tree g holds entry e below the root: the directory with its
\* permission bits, the file with its content and its permission bits
Reproduced(g, e) ==
    /\ Resolve(g, Join(dst, e.name), FALSE) \in DOMAIN g
    /\ g[Resolve(g, Join(dst, e.name), FALSE)] =
          IF e.kind = "dir" THEN [DirNode EXCEPT !.mode = e.mode]
          ELSE [FileNode(e.data) EXCEPT !.mode = e.mode]

\* C13: extracting the archive packed from a tree of directories and
\* regular files, tar.gz or zip, with no I/O fault, does not fail, and when
\* Extract returns nil every path of the tree is there with its content
\* and its permission bits
C13_RoundTrip ==
    run = 1 /\ ~swallowed /\ Packed(archive)
        => /\ ~(phase = "Failed" /\ pos > 0 /\ fault = "none")
           /\ phase = "Completed" /\ extractor # "system"
                => \A k \in 1..Len(archive) : Reproduced(fs, archive[k])

\* C14: no I/O failure is dropped: Extract never goes on after a failed
\* system call, and a failure while the content of a regular file is written
\* to its file makes Extract return an error that names the entry
C14_NoFailureSwallowed ==
    /\ ~swallowed
    /\ pos > 0 /\ fault \in {"write", "close"}
          => /\ phase = "Failed"
             /\ err.wrapped
             /\ err.entry = archive[pos].name

\* C15: once the caller's cancellation signal is raised, the entry loop
\* starts no further entry: the next step of Extract returns the Cancelled
\* error and leaves the filesystem as it is
C15_CancelStopsAtBoundary ==
    [][cancelled /\ phase = "Streaming"
          => /\ pos' = pos
             /\ fs' = fs
             /\ phase' = "Failed"
             /\ err'.msg = "cancelled"]_vars

\* C16: when Extract has returned, with nil or with an error, no temporary
\* spill file it made is left open or on disk
C16_ResourcesReleased ==
    phase \in {"Completed", "Failed"} => tmp \in {"none", "removed"}

(***************************************************************************)
(* Entries of the other tar types.                                         *)
(***************************************************************************)
\* the entry read in this step is of another type than directory, regular
\* file and symlink, and its path was admitted
OtherInStep ==
    /\ phase = "Streaming"
    /\ pos' = pos + 1
    /\ ~(fault' = "corrupt" /\ format # "zip")
    /\ archive[pos + 1].kind = "other"
    /\ err'.msg # PathRejectedMsg

\* C17: a tar entry whose path is admitted and whose type is none of
\* directory, regular file or symlink is ignored: no error, no system call,
\* no change of the filesystem, and the entry loop goes on
C17_OtherTypesIgnored ==
    [][OtherInStep
          => /\ fs' = fs
             /\ calls' = calls
             /\ err' = NoErr
             /\ phase' = "Streaming"]_vars

\* an entry of another type was passed over and the regular file after it
\* was extracted
C17_Witness ==
    /\ phase = "Completed"
    /\ run = 1
    /\ Len(archive) = 2
    /\ archive[1].kind = "other"
    /\ archive[2].kind = "reg"
    /\ CallsOf(1) = {}
    /\ CallsOf(2) # {}
    /\ Holds(fs, archive[2])

(***************************************************************************)
(* Calls of Extract that run side by side, as the goroutines of            *)
(* BenchmarkConcurrentExtraction do.  Each call owns its decoder, its      *)
(* buffers and its position; the extractor value holds no field a call     *)
(* writes.  The calls share the filesystem and the directory of temporary  *)
(* files.  One step is one entry of one call.                              *)
(***************************************************************************)
Jobs == {"a", "b"}
TempNames == {"extract-1.tmp", "extract-2.tmp"}
ConcEngines == {"optimized", "cached"}

\* the implementations that spill the source to a temporary file first
SpillsToTemp(x) == x = "cached"

\* a call of Extract(src, d) on implementation x, before its first statement
Job(x, d, a) ==
    [x |-> x, dst |-> d, archive |-> a, pos |-> 0, phase |-> "Init", msg |-> "",
     tmp |-> ""]

\* the roots of the second call, both disjoint from /d
SideRoots == { <<Sep, "d", "e">>, <<Sep, "o">> }
SideArchives == { <<>>, <<RegEntry(<<"f">>, Hello)>> }
ConcEntries ==
    { RegEntry(<<"f">>, Hello), DirEntry(<<"s", Sep>>),
      LinkEntry(<<"l">>, DotDot \o <<Sep, "d", "e">>), LinkEntry(<<"l">>, <<Sep, "o">>),
      RegEntry(<<"l", Sep, "n">>, Hello) }

\* the variables of the single call
single == <<extractor, engine, dst, src, archive, phase, format, err, srcPos,
            decIn, pos, calls, fs, fault, tmp, swallowed, run, prev, cancelled>>

\* no single call is under way
NoCall ==
    /\ extractor = "optimized"
    /\ engine = "optimized"
    /\ dst = <<Sep, "d">>
    /\ src = GzSource
    /\ archive = <<>>
    /\ phase = "Init"
    /\ format = ""
    /\ err = NoErr
    /\ srcPos = 0
    /\ decIn = NoInput
    /\ pos = 0
    /\ calls = <<>>
    /\ fs = <<>>
    /\ fault = "none"
    /\ tmp = "none"
    /\ swallowed = FALSE
    /\ run = 1
    /\ prev = <<>>
    /\ cancelled = FALSE

ConcInit ==
    /\ NoCall
    /\ inst = <<>>
    /\ call = <<>>
    /\ \E xa \in ConcEngines, xb \in ConcEngines, d \in SideRoots,
          a \in SeqsOver(ConcEntries), b \in SideArchives :
          job = [i \in Jobs |-> IF i = "a" THEN Job(xa, <<Sep, "d">>, a) ELSE Job(xb, d, b)]
    /\ disk = <<>>
    /\ temps = {}

\* os.CreateTemp opens with O_CREATE|O_EXCL and tries the next random name
\* when one exists: the names it can return
CreateTemp(names) == TempNames \ names

\* the deferred os.Remove(tmp.Name()) at the return of call j
RemoveTemp(names, j) == names \ {j.tmp}

\* the entry materializer of implementation x on the shared filesystem
MaterializeIn(g, x, e, d) ==
    extractTarEntryOptimized(x = "optimized", g, <<>>, 1, e, d, "none")

\* os.MkdirAll(dst, 0755) of call i
ConcPrepare(i) ==
    /\ job[i].phase = "Init"
    /\ \E m \in {MkdirAllFS(disk, job[i].dst, DirPerm)} :
          /\ disk' = m.fs
          /\ job' = [job EXCEPT ![i].phase = IF m.ok THEN "DestinationPrepared" ELSE "Failed",
                                ![i].msg = IF m.ok THEN ""
                                           ELSE "failed to create destination directory"]
    /\ UNCHANGED <<single, temps, inst, call>>

\* call i spills its source to a temporary file, if its implementation does,
\* and starts its decoder
ConcStart(i) ==
    /\ job[i].phase = "DestinationPrepared"
    /\ IF SpillsToTemp(job[i].x)
       THEN \E n \in CreateTemp(temps) :
               /\ temps' = temps \cup {n}
               /\ job' = [job EXCEPT ![i].phase = "Streaming", ![i].tmp = n]
       ELSE /\ job' = [job EXCEPT ![i].phase = "Streaming"]
            /\ temps' = temps
    /\ UNCHANGED <<single, disk, inst, call>>

\* one turn of the entry loop of call i
ConcEntry(i) ==
    /\ job[i].phase = "Streaming"
    /\ job[i].pos < Len(job[i].archive)
    /\ \E r \in {MaterializeIn(disk, job[i].x, job[i].archive[job[i].pos + 1], job[i].dst)} :
          /\ disk' = r.fs
          /\ job' = [job EXCEPT ![i].pos = @ + 1,
                                ![i].phase = IF r.msg = "" THEN "Streaming" ELSE "Failed",
                                ![i].msg = r.msg]
          /\ temps' = IF r.msg = "" THEN temps ELSE RemoveTemp(temps, job[i])
    /\ UNCHANGED <<single, inst, call>>

\* call i returns nil after its last entry
ConcFinish(i) ==
    /\ job[i].phase = "Streaming"
    /\ job[i].pos = Len(job[i].archive)
    /\ job' = [job EXCEPT ![i].phase = "Completed"]
    /\ temps' = RemoveTemp(temps, job[i])
    /\ UNCHANGED <<single, disk, inst, call>>

ConcNext ==
    \E i \in Jobs :
        \/ ConcPrepare(i)
        \/ ConcStart(i)
        \/ ConcEntry(i)
        \/ ConcFinish(i)

ConcSpec == ConcInit /\ [][ConcNext]_vars

\* the entries from k on of a call that runs alone, on the filesystem g
RECURSIVE EntriesAlone(_, _, _, _, _)
EntriesAlone(g, x, d, a, k) ==
    IF k > Len(a) THEN [msg |-> "", fs |-> g]
    ELSE LET r == MaterializeIn(g, x, a[k], d)
         IN  IF r.msg # "" THEN [msg |-> r.msg, fs |-> r.fs]
             ELSE EntriesAlone(r.fs, x, d, a, k + 1)

\* the outcome and the filesystem of call j when it is the only call
Alone(j) ==
    LET m == MkdirAllFS(<<>>, j.dst, DirPerm)
    IN  IF ~m.ok THEN [msg |-> "failed to create destination directory", fs |-> m.fs]
        ELSE EntriesAlone(m.fs, j.x, j.dst, j.archive, 1)

\* the tree of filesystem g at and below the directory root
TreeBelow(g, root) ==
    [q \in {ph \in DOMAIN g : ph = root \/ HasPrefix(ph, root \o <<Sep>>)} |-> g[q]]

\* call j has made its temporary file and has not returned
HoldsTemp(j) == j.tmp # "" /\ j.phase = "Streaming"

\* every call has returned
AllReturned == \A i \in Jobs : job[i].phase \in {"Completed", "Failed"}

\* C18: calls of Extract that run side by side on disjoint destination roots
\* end, under every interleaving, with the outcome and the tree each of them
\* has when it runs alone, and two calls never hold the same temporary file
C18_ConcurrentCallsIndependent ==
    /\ \A i \in Jobs, k \in Jobs :
          i # k /\ HoldsTemp(job[i]) /\ HoldsTemp(job[k]) => job[i].tmp # job[k].tmp
    /\ AllReturned
          => \A i \in Jobs :
                \E r \in {Alone(job[i])} :
                    /\ job[i].msg = r.msg
                    /\ TreeBelow(disk, job[i].dst) = TreeBelow(r.fs, job[i].dst)

(***************************************************************************)
(* Installer.Install(ctx, cfg): the repositories of the configuration,     *)
(* each found, selected, downloaded and extracted by installRepo.  inst is *)
(* [cfg, pings, i, step, asset, url, attempted, downloads, extracts, err,  *)
(* stages, closes]: i is the index of the repository of the loop,          *)
(* attempted the indices installRepo was called for, downloads and         *)
(* extracts the calls of the downloader and of the extractor, err what     *)
(* Install returns, stages the calls installRepo made, closes the          *)
(* repositories whose download stream was closed.                          *)
(***************************************************************************)
MaxRepos == 2

GitHub == "https://github.com/"
RepoURL(owner, repo) == <<GitHub, owner, Sep, repo>>
Repo(url, dir) == [URL |-> url, OutputDir |-> dir]
Config(github, mirror) == [Github |-> github, MirrorURL |-> mirror]

\* two repositories, and one whose URL names no repository
Repos ==
    { Repo(RepoURL("owner1", "repo1"), <<Sep, "tmp", Sep, "repo1">>),
      Repo(RepoURL("owner2", "repo2"), <<Sep, "tmp", Sep, "repo2">>),
      Repo(<<GitHub, "owner">>, <<Sep, "tmp", Sep, "test">>) }
Mirrors == { <<>>, <<"https://ghfast.top">> }
AssetURLs ==
    { RepoURL("owner", "repo") \o <<Sep, "releases/download/v1.0.0", Sep, "app.tar.gz">>,
      RepoURL("owner", "repo") \o <<Sep, "releases/download/v1.0.0", Sep, "app.zip">> }
Configs ==
    {Config(g, m) : g \in UNION {[1..n -> Repos] : n \in 0..MaxRepos}, m \in Mirrors}

\* Config.GetDownloadURL
GetDownloadURL(c, repoURL, assetURL) ==
    IF c.MirrorURL = <<>> THEN assetURL
    ELSE c.MirrorURL \o <<"/">> \o assetURL

\* config.ParseRepoURL: [owner, repo, err], the parts of the path after the
\* prefix as strings.Split cuts them, empty parts included
configParseRepoURL(repoURL) ==
    IF ~HasPrefix(repoURL, <<GitHub>>)
    THEN [owner |-> <<>>, repo |-> <<>>, err |-> "invalid GitHub URL"]
    ELSE IF Len(SplitSep(Tail(repoURL))) < 2
    THEN [owner |-> <<>>, repo |-> <<>>, err |-> "invalid GitHub URL format"]
    ELSE [owner |-> SplitSep(Tail(repoURL))[1], repo |-> SplitSep(Tail(repoURL))[2],
          err |-> ""]

\* config.ParseRepoURL returns no error: the prefix, and two parts or more
\* after it
ParseRepoURL(repoURL) == configParseRepoURL(repoURL).err = ""

NoInstallErr == [msg |-> "", url |-> <<>>]
\* fmt.Errorf("failed to install %s: %w", repo.URL, err)
InstallError(url, msg) == [msg |-> msg, url |-> url]

\* installRepo of repository st.i calls the stage
Stage(st, name) == [st EXCEPT !.stages = Append(@, [repo |-> st.i, stage |-> name])]

\* a reader that is never closed
LeakReader(st) == st

\* defer reader.Close(): runs when installRepo returns
CloseReader(st) == [st EXCEPT !.closes = Append(@, st.i)]

\* a loop that logs the failure and goes on with the next repository
SkipRepo(st, msg) == [st EXCEPT !.step = "loop"]

\* installRepo returned an error: Install returns it, wrapped with the URL
ReturnErr(st, msg) ==
    [st EXCEPT !.step = "returned", !.err = InstallError(st.cfg.Github[st.i].URL, msg)]

InstallInit ==
    /\ NoCall
    /\ call = <<>>
    /\ job = <<>>
    /\ disk = <<>>
    /\ temps = {}
    /\ \E c \in Configs, p \in BOOLEAN :
          inst = [cfg |-> c, pings |-> p, i |-> 0, step |-> "loop", asset |-> <<>>,
                  url |-> <<>>, attempted |-> <<>>, downloads |-> <<>>,
                  extracts |-> <<>>, err |-> NoInstallErr, stages |-> <<>>,
                  closes |-> <<>>]

\* for _, repo := range cfg.Github: installRepo is called for the next one
NextRepo ==
    /\ inst.step = "loop"
    /\ inst.i < Len(inst.cfg.Github)
    /\ inst' = [inst EXCEPT !.i = @ + 1, !.step = "parse",
                            !.attempted = Append(@, inst.i + 1)]
    /\ UNCHANGED <<single, conc, call>>

\* the range is exhausted: return nil
ReturnNil ==
    /\ inst.step = "loop"
    /\ inst.i = Len(inst.cfg.Github)
    /\ inst' = [inst EXCEPT !.step = "returned"]
    /\ UNCHANGED <<single, conc, call>>

ParseRepo ==
    /\ inst.step = "parse"
    /\ inst' = IF ParseRepoURL(inst.cfg.Github[inst.i].URL)
               THEN [Stage(inst, "parse") EXCEPT !.step = "find"]
               ELSE ReturnErr(Stage(inst, "parse"), "failed to parse repository URL")
    /\ UNCHANGED <<single, conc, call>>

\* i.finder.LatestStable(ctx, owner, repoName)
LatestStable ==
    /\ inst.step = "find"
    /\ \E ok \in BOOLEAN :
          inst' = IF ok THEN [Stage(inst, "find") EXCEPT !.step = "select"]
                  ELSE ReturnErr(Stage(inst, "find"), "failed to find latest release")
    /\ UNCHANGED <<single, conc, call>>

\* the asset the filter selects, or none
SelectAsset ==
    /\ inst.step = "select"
    /\ \E a \in AssetURLs \cup {<<>>} :
          inst' = IF a # <<>>
                  THEN [Stage(inst, "select") EXCEPT !.step = "url", !.asset = a]
                  ELSE ReturnErr(Stage(inst, "select"), "no suitable asset found")
    /\ UNCHANGED <<single, conc, call>>

\* the URL to download from: cfg.GetDownloadURL, and in the installRepo that
\* pings, asset.URL itself when PingGoogle answers
ChooseURL ==
    /\ inst.step = "url"
    /\ \E reached \in (IF inst.pings THEN BOOLEAN ELSE {FALSE}) :
          inst' = [inst EXCEPT
                     !.step = "download",
                     !.url = IF reached THEN inst.asset
                             ELSE GetDownloadURL(inst.cfg, inst.cfg.Github[inst.i].URL,
                                                 inst.asset)]
    /\ UNCHANGED <<single, conc, call>>

\* i.downloader.Download(ctx, downloadURL)
Download ==
    /\ inst.step = "download"
    /\ \E ok \in BOOLEAN :
          \E st \in {[Stage(inst, "download") EXCEPT !.downloads =
                        Append(@, [repo |-> inst.i, asset |-> inst.asset,
                                   url |-> inst.url, ok |-> ok])]} :
              inst' = IF ok THEN [st EXCEPT !.step = "extract"]
                      ELSE ReturnErr(st, "failed to download asset")
    /\ UNCHANGED <<single, conc, call>>

\* i.extractor.Extract(reader, repo.OutputDir), and the return of installRepo
\* with its deferred Close
ExtractRepo ==
    /\ inst.step = "extract"
    /\ \E ok \in BOOLEAN :
          \E st \in {[Stage(inst, "extract") EXCEPT !.extracts =
                        Append(@, [repo |-> inst.i,
                                   dst |-> inst.cfg.Github[inst.i].OutputDir])]} :
              inst' = IF ok THEN [CloseReader(st) EXCEPT !.step = "loop"]
                      ELSE ReturnErr(CloseReader(st), "failed to extract archive")
    /\ UNCHANGED <<single, conc, call>>

InstallNext ==
    \/ NextRepo
    \/ ReturnNil
    \/ ParseRepo
    \/ LatestStable
    \/ SelectAsset
    \/ ChooseURL
    \/ Download
    \/ ExtractRepo

InstallSpec == InstallInit /\ [][InstallNext]_vars

\* the calls of the extractor for repository j
ExtractsOf(j) == {k \in 1..Len(inst.extracts) : inst.extracts[k].repo = j}

\* repository j was downloaded and installRepo is past its call of Extract
Downloaded(j) ==
    /\ \E k \in 1..Len(inst.downloads) : inst.downloads[k].repo = j /\ inst.downloads[k].ok
    /\ j < inst.i \/ inst.step # "extract"

\* C19: Install takes the repositories one at a time in the order of the
\* configuration; the extractor is called once for every repository that
\* was downloaded, with its output directory, and for no other; Install
\* returns at the first repository that fails, with an error that names its
\* URL, and calls installRepo for no later one
C19_InstallInOrder ==
    /\ inst.attempted = [k \in 1..inst.i |-> k]
    /\ \A k \in 1..Len(inst.extracts) :
          inst.extracts[k].dst = inst.cfg.Github[inst.extracts[k].repo].OutputDir
    /\ \A k \in 1..Len(inst.extracts) : \A l \in 1..Len(inst.extracts) :
          k < l => inst.extracts[k].repo < inst.extracts[l].repo
    /\ \A j \in 1..Len(inst.cfg.Github) :
          Cardinality(ExtractsOf(j)) = IF Downloaded(j) THEN 1 ELSE 0
    /\ \A j \in 1..(inst.i - 1) : Downloaded(j)
    /\ inst.step = "returned"
          => IF inst.err = NoInstallErr
             THEN /\ inst.i = Len(inst.cfg.Github)
                  /\ \A j \in 1..inst.i : Downloaded(j)
             ELSE /\ inst.err.url = inst.cfg.Github[inst.i].URL
                  /\ inst.i = Len(inst.attempted)

\* the first of two repositories was installed and the download of the second
\* failed: Install returned the error with the URL of the second
C19_Witness ==
    /\ inst.step = "returned"
    /\ Len(inst.cfg.Github) = 2
    /\ inst.i = 2
    /\ Len(inst.extracts) = 1
    /\ inst.extracts[1].repo = 1
    /\ inst.err = InstallError(inst.cfg.Github[2].URL, "failed to download asset")

\* C20: the URL handed to the downloader is the mirror prefix, a slash and
\* the URL of the asset when a mirror is configured, and the URL of the asset
\* when none is
C20_MirrorPrefixApplied ==
    \A k \in 1..Len(inst.downloads) :
        inst.downloads[k].url =
            IF inst.cfg.MirrorURL # <<>>
            THEN inst.cfg.MirrorURL \o <<"/">> \o inst.downloads[k].asset
            ELSE inst.downloads[k].asset

\* the stages of installRepo, in the order of its code
StageOrder == <<"parse", "find", "select", "download", "extract">>

\* the stages installRepo ran for repository j, in the order it ran them
RECURSIVE StagesFrom(_, _)
StagesFrom(j, k) ==
    IF k > Len(inst.stages) THEN <<>>
    ELSE IF inst.stages[k].repo = j THEN <<inst.stages[k].stage>> \o StagesFrom(j, k + 1)
    ELSE StagesFrom(j, k + 1)
StagesOf(j) == StagesFrom(j, 1)

\* installRepo of repository j has returned
RepoReturned(j) == j < inst.i \/ (j = inst.i /\ inst.step \in {"loop", "returned"})

\* the download of repository j opened a stream
Opened(j) ==
    \E k \in 1..Len(inst.downloads) : inst.downloads[k].repo = j /\ inst.downloads[k].ok

\* C25: the stages of one repository run in the order parse, find, select,
\* download, extract, each at most once; after a stage that failed Install
\* has returned an error and no later stage ran; nothing is downloaded
\* without a selected asset, nothing is extracted without a download that
\* succeeded; a stream that was opened is closed exactly once when
\* installRepo has returned, and no other stream is closed
C25_StagesInOrder ==
    /\ \A j \in 1..Len(inst.cfg.Github) :
          /\ Len(StagesOf(j)) <= Len(StageOrder)
          /\ StagesOf(j) = SubSeq(StageOrder, 1, Len(StagesOf(j)))
          /\ (RepoReturned(j) /\ Len(StagesOf(j)) < Len(StageOrder))
                => inst.step = "returned" /\ inst.err # NoInstallErr /\ j = inst.i
          /\ Cardinality({k \in 1..Len(inst.closes) : inst.closes[k] = j})
                = IF Opened(j) /\ RepoReturned(j) THEN 1 ELSE 0
    /\ \A k \in 1..Len(inst.downloads) :
          /\ inst.downloads[k].asset \in AssetURLs
          /\ Len(StagesOf(inst.downloads[k].repo)) >= 4
    /\ \A k \in 1..Len(inst.extracts) : Opened(inst.extracts[k].repo)
    /\ (inst.step = "returned" /\ inst.err # NoInstallErr)
          => \A j \in (inst.i + 1)..Len(inst.cfg.Github) : StagesOf(j) = <<>>

\* the extraction of a downloaded archive failed: Install returned the error
\* and the stream of the download was closed
C25_Witness ==
    /\ inst.step = "returned"
    /\ inst.err.msg = "failed to extract archive"
    /\ StagesOf(inst.i) = StageOrder
    /\ inst.closes # <<>>
    /\ inst.closes[Len(inst.closes)] = inst.i

(***************************************************************************)
(* The functions of the packages release and config, each applied once to  *)
(* an input.  call is [fn, arg, ret, done].  A tag is the sequence of its  *)
(* parts, <<"v", "1.0.0">> for v1.0.0; a release is [TagName, PublishedAt, *)
(* Draft, Prerelease].                                                     *)
(***************************************************************************)
MaxReleases == 3

Call0(fn, arg) == [fn |-> fn, arg |-> arg, ret |-> <<>>, done |-> FALSE]
Returned(fn) == call # <<>> /\ call.fn = fn /\ call.done

\* what semver reads in the text after the v: major, minor, patch and the
\* prerelease
SemverOf ==
    [t \in {"1.0.0", "1.5.0", "2.0.0", "2.0.0-beta"} |->
        IF t = "1.0.0" THEN [nums |-> <<1, 0, 0>>, pre |-> ""]
        ELSE IF t = "1.5.0" THEN [nums |-> <<1, 5, 0>>, pre |-> ""]
        ELSE IF t = "2.0.0" THEN [nums |-> <<2, 0, 0>>, pre |-> ""]
        ELSE [nums |-> <<2, 0, 0>>, pre |-> "beta"]]

\* semver.IsValid
IsValid(tag) == Len(tag) = 2 /\ tag[1] = "v" /\ tag[2] \in DOMAIN SemverOf

\* the order of two number lists of the same length: -1, 0 or 1
RECURSIVE CompareNums(_, _)
CompareNums(a, b) ==
    IF a = <<>> THEN 0
    ELSE IF Head(a) < Head(b) THEN -1
    ELSE IF Head(a) > Head(b) THEN 1
    ELSE CompareNums(Tail(a), Tail(b))

\* semver.Compare of two valid tags: a version with a prerelease is below
\* the same version without one
Compare(v, w) ==
    LET a == SemverOf[v[2]]
        b == SemverOf[w[2]]
    IN  IF CompareNums(a.nums, b.nums) # 0 THEN CompareNums(a.nums, b.nums)
        ELSE IF a.pre = b.pre THEN 0
        ELSE IF a.pre = "" THEN 1
        ELSE -1

normalizeTag(tag) ==
    IF tag = <<>> THEN <<>>
    ELSE IF Head(tag) = "v" THEN tag
    ELSE <<"v">> \o tag

Release(tag, at, draft, prerelease) ==
    [TagName |-> tag, PublishedAt |-> at, Draft |-> draft, Prerelease |-> prerelease]

\* a comparison by the publish time alone
lessByTime(ri, rj) == ri.PublishedAt > rj.PublishedAt

\* the less function findLatestRelease hands to sort.Slice
less(ri, rj) ==
    LET tagI == normalizeTag(ri.TagName)
        tagJ == normalizeTag(rj.TagName)
    IN  IF IsValid(tagI) /\ IsValid(tagJ) THEN Compare(tagI, tagJ) > 0
        ELSE IF IsValid(tagI) /\ ~IsValid(tagJ) THEN TRUE
        ELSE IF ~IsValid(tagI) /\ IsValid(tagJ) THEN FALSE
        ELSE ri.PublishedAt > rj.PublishedAt

\* sort.Slice on a slice this short is an insertion sort: the element at j
\* moves down while it is less than the one before it
Swap(rs, j, k) == [rs EXCEPT ![j] = rs[k], ![k] = rs[j]]
RECURSIVE MoveDown(_, _)
MoveDown(rs, j) ==
    IF j > 1 /\ less(rs[j], rs[j - 1]) THEN MoveDown(Swap(rs, j, j - 1), j - 1)
    ELSE rs
RECURSIVE insertionSort(_, _)
insertionSort(rs, i) ==
    IF i > Len(rs) THEN rs ELSE insertionSort(MoveDown(rs, i), i + 1)

findLatestRelease(releases) ==
    IF Len(releases) = 1 THEN releases[1]
    ELSE insertionSort(releases, 2)[1]

\* a filter that drops the drafts only
RECURSIVE filterDrafts(_)
filterDrafts(releases) ==
    IF releases = <<>> THEN <<>>
    ELSE IF ~Head(releases).Draft
    THEN <<Head(releases)>> \o filterDrafts(Tail(releases))
    ELSE filterDrafts(Tail(releases))

RECURSIVE filterStableReleases(_)
filterStableReleases(releases) ==
    IF releases = <<>> THEN <<>>
    ELSE IF ~Head(releases).Draft /\ ~Head(releases).Prerelease
    THEN <<Head(releases)>> \o filterStableReleases(Tail(releases))
    ELSE filterStableReleases(Tail(releases))

\* what the server answers: no answer, or a status and a body, which
\* decodes to a list of releases or does not decode
StatusOK == 200
Response(status, decodes, body) == [status |-> status, decodes |-> decodes, body |-> body]
NoResponse == Response(0, FALSE, <<>>)
Found(r) == [err |-> "", release |-> <<r>>]
NotFound(msg) == [err |-> msg, release |-> <<>>]

\* GitHubClient.LatestStable, from the response on
GitHubClientLatestStable(resp) ==
    IF resp = NoResponse THEN NotFound("failed to fetch releases")
    ELSE IF resp.status # StatusOK THEN NotFound("GitHub API returned status")
    ELSE IF ~resp.decodes THEN NotFound("failed to decode releases")
    ELSE IF Len(resp.body) = 0 THEN NotFound("no releases found")
    ELSE IF Len(filterStableReleases(resp.body)) = 0 THEN NotFound("no stable releases found")
    ELSE Found(findLatestRelease(filterStableReleases(resp.body)))

\* the releases a server lists: two tags, drafts and prereleases among them
ListedReleases ==
    {Release(t, 1, d, p) : t \in {<<"v", "1.0.0">>, <<"v", "2.0.0">>},
                            d \in BOOLEAN, p \in BOOLEAN}
Listings == UNION {[1..n -> ListedReleases] : n \in 0..MaxReleases}
Responses ==
    {NoResponse}
    \cup {Response(st, TRUE, b) : st \in {StatusOK, 404}, b \in Listings}
    \cup {Response(st, FALSE, <<>>) : st \in {StatusOK, 404}}

\* stable releases with tags of every shape, published at two times
Tags ==
    { <<"v", "1.0.0">>, <<"1.0.0">>, <<"v", "2.0.0">>, <<"1.5.0">>, <<"v", "2.0.0-beta">>,
      <<"nightly">>, <<>> }
StableReleases == {Release(t, at, FALSE, FALSE) : t \in Tags, at \in {1, 2}}
StableLists == UNION {[1..n -> StableReleases] : n \in 1..MaxReleases}

(***************************************************************************)
(* Asset filters.  An asset is [Name, Size]; a name is the sequence of its *)
(* parts, cut so that every alias and pattern the filters look for is a    *)
(* run of parts: arm64 is <<"arm", "64">>, darwin is <<"dar", "win">>.      *)
(***************************************************************************)
MaxAssets == 3

Asset(name, size) == [Name |-> name, Size |-> size]

\* strings.ToLower, part by part
LowerPart(part) ==
    IF part = "App" THEN "app"
    ELSE IF part = ".ZIP" THEN ".zip"
    ELSE IF part = "Linux" THEN "linux"
    ELSE part
ToLower(name) == [k \in 1..Len(name) |-> LowerPart(name[k])]

\* strings.Contains
Contains(name, pattern) ==
    \E k \in 0..(Len(name) - Len(pattern)) : SubSeq(name, k + 1, k + Len(pattern)) = pattern

DefaultPatterns == << <<".tar.gz">>, <<".zip">>, <<".tgz">> >>

\* the inner loop: some pattern from index k on is contained in the name
RECURSIVE AnyPattern(_, _, _)
AnyPattern(name, patterns, k) ==
    IF k > Len(patterns) THEN FALSE
    ELSE IF Contains(name, ToLower(patterns[k])) THEN TRUE
    ELSE AnyPattern(name, patterns, k + 1)

\* the outer loop of DefaultFilter, ByNamePattern and FindAsset: the first
\* asset from index k on whose lower-cased name contains a pattern
RECURSIVE FirstByName(_, _, _)
FirstByName(assets, patterns, k) ==
    IF k > Len(assets) THEN <<>>
    ELSE IF AnyPattern(ToLower(assets[k].Name), patterns, 1) THEN <<assets[k]>>
    ELSE FirstByName(assets, patterns, k + 1)

\* loops the other way round: the first pattern that some asset contains
RECURSIVE FirstByPattern(_, _, _)
FirstByPattern(assets, patterns, k) ==
    IF k > Len(patterns) THEN <<>>
    ELSE IF FirstByName(assets, <<patterns[k]>>, 1) # <<>>
    THEN FirstByName(assets, <<patterns[k]>>, 1)
    ELSE FirstByPattern(assets, patterns, k + 1)

\* what a filter returns: the asset or an error, and the slice it was given
\* as the call leaves it
Picked(found, msg, assets) ==
    [err |-> IF found = <<>> THEN msg ELSE "", asset |-> found, assets |-> assets]

\* a default filter in which the order of the patterns goes first
DefaultFilterByPattern(assets) ==
    Picked(FirstByPattern(assets, DefaultPatterns, 1), "no suitable asset found", assets)

DefaultFilter(assets) ==
    Picked(FirstByName(assets, DefaultPatterns, 1), "no suitable asset found", assets)

\* Release.FindAsset(patterns...): nil when nothing matches
FindAsset(assets, patterns) ==
    Picked(FirstByName(assets, IF patterns = <<>> THEN DefaultPatterns ELSE patterns, 1),
           "nil", assets)

\* the aliases ByOS and ByArch look for; a target without an entry is its
\* own alias
osAliases(targetOS) ==
    IF targetOS = "linux" THEN << <<"linux">> >>
    ELSE IF targetOS = "darwin" THEN << <<"dar", "win">>, <<"macos">>, <<"osx">> >>
    ELSE IF targetOS = "windows" THEN << <<"win", "dows">>, <<"win">> >>
    ELSE << <<targetOS>> >>
archAliases(targetArch) ==
    IF targetArch = "amd64" THEN << <<"amd64">>, <<"x86", "_64">>, <<"x64">> >>
    ELSE IF targetArch = "386" THEN << <<"386">>, <<"i", "386">>, <<"x86">> >>
    ELSE IF targetArch = "arm64" THEN << <<"arm", "64">>, <<"aarch64">> >>
    ELSE IF targetArch = "arm" THEN << <<"arm">>, <<"armv7">> >>
    ELSE << <<targetArch>> >>

\* a filter value: ByOS(target) or ByArch(target)
ByOS(os) == [by |-> "os", target |-> os]
ByArch(arch) == [by |-> "arch", target |-> arch]

\* the call filter(assets)
Apply(filter, assets) ==
    IF filter.by = "os"
    THEN Picked(FirstByName(assets, osAliases(filter.target), 1), "no asset found for OS", assets)
    ELSE Picked(FirstByName(assets, archAliases(filter.target), 1),
                "no asset found for architecture", assets)

\* the loop of Combined from filter i on (i counts from 1)
RECURSIVE CombinedFrom(_, _, _, _)
CombinedFrom(filters, i, currentAssets, assets) ==
    IF Len(currentAssets) = 0 THEN Picked(<<>>, "no assets left after filter", assets)
    ELSE IF i = Len(filters) THEN [Apply(filters[i], currentAssets) EXCEPT !.assets = assets]
    ELSE IF Apply(filters[i], currentAssets).err # "" THEN Picked(<<>>, "filter failed", assets)
    ELSE CombinedFrom(filters, i + 1, Apply(filters[i], currentAssets).asset, assets)

\* Combined(filters...)(assets)
Combined(filters, assets) ==
    IF Len(filters) = 0 THEN Picked(<<>>, "no filters specified", assets)
    ELSE CombinedFrom(filters, 1, assets, assets)

Filters == {ByOS("linux"), ByOS("darwin"), ByArch("amd64"), ByArch("arm64")}
FilterLists == UNION {[1..n -> Filters] : n \in 0..2}

AssetNames ==
    { <<"app", "-", "linux", "-", "arm", "64", ".tar.gz">>,
      <<"app", "-", "Linux", "-", "amd64", ".tgz">>,
      <<"app", "-", "dar", "win", "-", "amd64", ".zip">>,
      <<"App", "-", "win", "dows", "-", "amd64", ".ZIP">>,
      <<"app", "-", "linux", "-", "amd64", ".deb">>,
      <<"app", "-", "linux", "-", "amd64", ".tar.gz">> }
Assets == {Asset(n, 1024) : n \in AssetNames}
AssetLists == UNION {[1..n -> Assets] : n \in 0..MaxAssets}

\* a source reader: an *os.File on a regular file, an *os.File that cannot
\* seek (a pipe), or another io.Reader (the body of a download); pos is how
\* far it has been read
SourceKinds == {"file", "pipe", "stream"}
\* the reader of a gzip stream, not yet read
Reader(kind) == [kind |-> kind, bytes |-> <<31, 139, 8, 0>>, pos |-> 0]

\* the steps of SystemExtractor.Extract that can fail
SystemSteps == {"mkdir", "temp", "detect", "command"}

\* SystemExtractor.Extract(src, dst) when step fails (or none does):
\* createTempFile copies the source to its end
SystemExtractorExtract(rd, fails) ==
    IF fails = "mkdir" THEN [err |-> "failed to create destination directory", src |-> rd]
    ELSE IF fails = "temp"
    THEN [err |-> "failed to create temp file", src |-> [rd EXCEPT !.pos = Len(rd.bytes)]]
    ELSE IF fails = "detect"
    THEN [err |-> "failed to detect format", src |-> [rd EXCEPT !.pos = Len(rd.bytes)]]
    ELSE IF fails = "command"
    THEN [err |-> "system command failed", src |-> [rd EXCEPT !.pos = Len(rd.bytes)]]
    ELSE [err |-> "", src |-> [rd EXCEPT !.pos = Len(rd.bytes)]]

\* file, ok := src.(*os.File)
IsOsFile(rd) == rd.kind \in {"file", "pipe"}

\* file.Seek(0, 0) returns no error
CanSeek(rd) == rd.kind = "file"

\* SystemExtractorWithFallback.Extract(src, dst): what it returns, the
\* position of the source at which the fallback started reading (<<>> when
\* it did not run)
SystemExtractorWithFallbackExtract(rd, fails, goFails) ==
    IF SystemExtractorExtract(rd, fails).err = ""
    THEN [err |-> "", fallback |-> <<>>]
    ELSE IF IsOsFile(rd) /\ CanSeek(rd)
    THEN [err |-> IF goFails THEN "go extraction failed" ELSE "", fallback |-> <<0>>]
    ELSE [err |-> "system extraction failed and cannot retry with Go implementation",
          fallback |-> <<>>]

\* strings.TrimSuffix(s, "/"): the prefix https://github.com/ ends with a
\* slash of its own
TrimSuffixSlash(s) ==
    IF s = <<>> THEN s
    ELSE IF s[Len(s)] = Sep THEN SubSeq(s, 1, Len(s) - 1)
    ELSE IF s[Len(s)] = GitHub THEN SubSeq(s, 1, Len(s) - 1) \o <<"https://github.com">>
    ELSE s

\* Config.validate: the error of the first repository from index i on that
\* is not valid, "" for nil
RECURSIVE validateFrom(_, _)
validateFrom(github, i) ==
    IF i > Len(github) THEN ""
    ELSE IF github[i].URL = <<>> THEN "URL is required"
    ELSE IF github[i].OutputDir = <<>> THEN "output_dir is required"
    ELSE IF ~HasPrefix(github[i].URL, <<GitHub>>) THEN "URL must be a GitHub repository URL"
    ELSE validateFrom(github, i + 1)
validate(c) ==
    IF Len(c.Github) = 0 THEN "no GitHub repositories configured"
    ELSE validateFrom(c.Github, 1)

\* Config.normalize
normalize(c) ==
    [Github |-> [i \in 1..Len(c.Github) |->
                    Repo(TrimSuffixSlash(c.Github[i].URL), Clean(c.Github[i].OutputDir))],
     MirrorURL |-> IF c.MirrorURL # <<>> THEN TrimSuffixSlash(c.MirrorURL) ELSE c.MirrorURL]

\* config.Load from the decoded file on: [cfg, err]
Load(c) ==
    IF validate(c) # "" THEN [cfg |-> Config(<<>>, <<>>), err |-> validate(c)]
    ELSE [cfg |-> normalize(c), err |-> ""]

\* repository URLs: complete, with a trailing slash, with a longer path,
\* without a repository, without an owner, not of GitHub, empty
URLs ==
    { RepoURL("owner", "repo"), RepoURL("owner", "repo") \o <<Sep>>,
      RepoURL("owner", "repo") \o <<Sep, "releases">>,
      <<GitHub, "owner">>, <<GitHub, "owner", Sep>>, <<GitHub, "owner", Sep, Sep>>,
      <<GitHub, Sep, "repo">>, <<GitHub>>,
      <<"https://gitlab.com/", "owner", Sep, "repo">>, <<>> }
OutputDirs == { <<>>, <<Dot, Sep, "out", Sep>> }
ConfigFiles ==
    {Config(g, m) :
        g \in UNION {[1..n -> {Repo(u, d) : u \in URLs, d \in OutputDirs}] : n \in 0..MaxRepos},
        m \in {<<>>, <<"https://ghfast.top", Sep>>}}

CallInit ==
    /\ NoCall
    /\ job = <<>>
    /\ disk = <<>>
    /\ temps = {}
    /\ inst = <<>>
    /\ \/ \E resp \in Responses : call = Call0("LatestStable", resp)
       \/ \E rs \in Listings : call = Call0("filterStableReleases", rs)
       \/ \E rs \in StableLists : call = Call0("findLatestRelease", rs)
       \/ \E as \in AssetLists : call = Call0("DefaultFilter", as)
       \/ \E as \in AssetLists, ps \in {<<>>, << <<"linux">> >>} :
             call = Call0("FindAsset", [assets |-> as, patterns |-> ps])
       \/ \E as \in AssetLists, fl \in FilterLists :
             call = Call0("Combined", [assets |-> as, filters |-> fl])
       \/ \E c \in ConfigFiles : call = Call0("Load", c)
       \/ \E u \in URLs : call = Call0("ParseRepoURL", u)
       \/ \E k \in SourceKinds, f \in SystemSteps \cup {"none"}, g \in BOOLEAN :
             call = Call0("SystemExtractorWithFallback.Extract",
                          [src |-> Reader(k), fails |-> f, goFails |-> g])

LatestStableCall ==
    /\ call.fn = "LatestStable" /\ ~call.done
    /\ call' = [call EXCEPT !.ret = GitHubClientLatestStable(call.arg), !.done = TRUE]
    /\ UNCHANGED <<single, conc, inst>>

filterStableReleasesCall ==
    /\ call.fn = "filterStableReleases" /\ ~call.done
    /\ call' = [call EXCEPT !.ret = filterStableReleases(call.arg), !.done = TRUE]
    /\ UNCHANGED <<single, conc, inst>>

findLatestReleaseCall ==
    /\ call.fn = "findLatestRelease" /\ ~call.done
    /\ call' = [call EXCEPT !.ret = findLatestRelease(call.arg), !.done = TRUE]
    /\ UNCHANGED <<single, conc, inst>>

DefaultFilterCall ==
    /\ call.fn = "DefaultFilter" /\ ~call.done
    /\ call' = [call EXCEPT !.ret = DefaultFilter(call.arg), !.done = TRUE]
    /\ UNCHANGED <<single, conc, inst>>

FindAssetCall ==
    /\ call.fn = "FindAsset" /\ ~call.done
    /\ call' = [call EXCEPT !.ret = FindAsset(call.arg.assets, call.arg.patterns),
                            !.done = TRUE]
    /\ UNCHANGED <<single, conc, inst>>

CombinedCall ==
    /\ call.fn = "Combined" /\ ~call.done
    /\ call' = [call EXCEPT !.ret = Combined(call.arg.filters, call.arg.assets),
                            !.done = TRUE]
    /\ UNCHANGED <<single, conc, inst>>

SystemExtractorWithFallbackExtractCall ==
    /\ call.fn = "SystemExtractorWithFallback.Extract" /\ ~call.done
    /\ call' = [call EXCEPT
                  !.ret = SystemExtractorWithFallbackExtract(call.arg.src, call.arg.fails,
                                                             call.arg.goFails),
                  !.done = TRUE]
    /\ UNCHANGED <<single, conc, inst>>

LoadCall ==
    /\ call.fn = "Load" /\ ~call.done
    /\ call' = [call EXCEPT !.ret = Load(call.arg), !.done = TRUE]
    /\ UNCHANGED <<single, conc, inst>>

ParseRepoURLCall ==
    /\ call.fn = "ParseRepoURL" /\ ~call.done
    /\ call' = [call EXCEPT !.ret = configParseRepoURL(call.arg), !.done = TRUE]
    /\ UNCHANGED <<single, conc, inst>>

CallNext ==
    \/ LatestStableCall
    \/ filterStableReleasesCall
    \/ findLatestReleaseCall
    \/ DefaultFilterCall
    \/ FindAssetCall
    \/ CombinedCall
    \/ SystemExtractorWithFallbackExtractCall
    \/ LoadCall
    \/ ParseRepoURLCall

CallSpec == CallInit /\ [][CallNext]_vars

\* a release that is neither a draft nor a prerelease
Stable(r) == ~r.Draft /\ ~r.Prerelease

\* the server answered 200 with a list that holds a stable release
HasStable(resp) ==
    /\ resp # NoResponse
    /\ resp.status = StatusOK
    /\ resp.decodes
    /\ \E k \in 1..Len(resp.body) : Stable(resp.body[k])

\* C21: LatestStable returns one of the fetched releases that is neither a
\* draft nor a prerelease, and an error when the list is empty, holds no
\* stable release or the status is not 200; filterStableReleases keeps
\* exactly the stable releases, in their order
C21_LatestStableIsStable ==
    /\ Returned("LatestStable")
          => IF HasStable(call.arg)
             THEN /\ call.ret.err = ""
                  /\ \E k \in 1..Len(call.arg.body) :
                        call.ret.release = <<call.arg.body[k]>> /\ Stable(call.arg.body[k])
             ELSE call.ret.err # "" /\ call.ret.release = <<>>
    /\ Returned("filterStableReleases")
          => call.ret = SelectSeq(call.arg, Stable)

\* LatestStable returned a stable release from a list that also holds a
\* draft and a prerelease
C21_Witness ==
    /\ Returned("LatestStable")
    /\ call.ret.err = ""
    /\ \E k \in 1..Len(call.arg.body) : call.arg.body[k].Draft
    /\ \E k \in 1..Len(call.arg.body) : call.arg.body[k].Prerelease /\ ~call.arg.body[k].Draft

\* release a ranks strictly above release b
RanksAbove(a, b) ==
    LET va == IsValid(normalizeTag(a.TagName))
        vb == IsValid(normalizeTag(b.TagName))
    IN  IF va /\ vb THEN Compare(normalizeTag(a.TagName), normalizeTag(b.TagName)) = 1
        ELSE IF va # vb THEN va
        ELSE a.PublishedAt > b.PublishedAt

\* C22: findLatestRelease returns a release of its input, and no release of
\* the input ranks strictly above it: semantic versions by version, a
\* semantic version above any other tag, other tags by publish time
C22_LatestIsMaximum ==
    Returned("findLatestRelease")
        => /\ \E k \in 1..Len(call.arg) : call.arg[k] = call.ret
           /\ \A k \in 1..Len(call.arg) : ~RanksAbove(call.arg[k], call.ret)

\* the latest of three releases was the last of the input, a semantic
\* version without the v, after a tag that is none
C22_Witness ==
    /\ Returned("findLatestRelease")
    /\ Len(call.arg) = 3
    /\ call.ret = call.arg[3]
    /\ call.ret.TagName = <<"1.5.0">>
    /\ ~IsValid(normalizeTag(call.arg[1].TagName))
    /\ call.arg[1].PublishedAt > call.ret.PublishedAt

\* the lower-cased name of asset a contains .tar.gz, .zip or .tgz
IsArchiveName(a) ==
    \E p \in {<<".tar.gz">>, <<".zip">>, <<".tgz">>} : Contains(ToLower(a.Name), p)

\* ret is what the default selection owes for the list assets: the first
\* asset with an archive name, or not found
DefaultChoice(assets, ret) ==
    /\ ret.assets = assets
    /\ IF \E k \in 1..Len(assets) : IsArchiveName(assets[k])
       THEN /\ ret.err = ""
            /\ \E k \in 1..Len(assets) :
                  /\ ret.asset = <<assets[k]>>
                  /\ IsArchiveName(assets[k])
                  /\ \A l \in 1..(k - 1) : ~IsArchiveName(assets[l])
       ELSE ret.err # "" /\ ret.asset = <<>>

\* C23: DefaultFilter, and FindAsset without patterns, return the first asset
\* of the list whose lower-cased name contains .tar.gz, .zip or .tgz, and
\* not-found when there is none; the asset is an element of the list and
\* the list is left as it was
C23_DefaultFilterFirstMatch ==
    /\ Returned("DefaultFilter") => DefaultChoice(call.arg, call.ret)
    /\ Returned("FindAsset") /\ call.arg.patterns = <<>>
          => DefaultChoice(call.arg.assets, call.ret)

\* DefaultFilter passed over an asset that is no archive and returned a .ZIP
\* asset that stands before a .tar.gz asset
C23_Witness ==
    /\ Returned("DefaultFilter")
    /\ Len(call.arg) = 3
    /\ ~IsArchiveName(call.arg[1])
    /\ call.ret.asset = <<call.arg[2]>>
    /\ Contains(call.arg[2].Name, <<".ZIP">>)
    /\ Contains(call.arg[3].Name, <<".tar.gz">>)

\* asset a satisfies the filter: the filter selects it when it is alone
Satisfies(a, filter) == Apply(filter, <<a>>).err = ""

\* asset a satisfies every filter of the list
SatisfiesAll(a, filters) == \A i \in 1..Len(filters) : Satisfies(a, filters[i])

\* C24: Combined(f1, ..., fn) returns an asset that satisfies every filter
\* whenever the list holds one, and fails only when the list holds none or
\* no filter was given
C24_CombinedSatisfiesAll ==
    Returned("Combined")
        => IF call.arg.filters # <<>>
              /\ \E k \in 1..Len(call.arg.assets) :
                    SatisfiesAll(call.arg.assets[k], call.arg.filters)
           THEN /\ call.ret.err = ""
                /\ \E k \in 1..Len(call.arg.assets) :
                      /\ call.ret.asset = <<call.arg.assets[k]>>
                      /\ SatisfiesAll(call.arg.assets[k], call.arg.filters)
           ELSE call.ret.err # ""

\* C26: whenever SystemExtractor.Extract returns an error, the Go
\* implementation runs on the source from its first byte, whatever the kind
\* of the reader, and the call succeeds if and only if that extraction does
C26_FallbackAlwaysRuns ==
    (Returned("SystemExtractorWithFallback.Extract") /\ call.arg.fails # "none")
        => /\ call.ret.fallback = <<0>>
           /\ call.ret.err = "" <=> ~call.arg.goFails

(***************************************************************************)
(* MultiExtractor and OptimizedExtractor on the same input.  The two calls *)
(* of Extract get the same source bytes, the same destination root in an   *)
(* empty tree of its own, and the same fault: call is [fn, arg, ret, done] *)
(* with arg = [src, dst, archive, fault] and ret = [legacy, optimized],    *)
(* the two runs.  A run is [phase, format, pos, tree, log, msg].  A fault   *)
(* is [kind, at]: a failing system call or corrupt data at entry at, or a  *)
(* source whose Read fails when the bytes of a zone are asked for: the     *)
(* four head bytes, the header of the compressed stream, or entry at.      *)
(***************************************************************************)
TwinFault(kind, at) == [kind |-> kind, at |-> at]
NoTwinFault == TwinFault("none", 0)
SourceFaults(a) ==
    {TwinFault("source head", 0), TwinFault("source decoder", 0)}
    \cup {TwinFault("source entry", k) : k \in 1..Len(a)}
IsSourceFault(f) == f.kind \in {"source head", "source decoder", "source entry"}
TwinFaults(a) ==
    {NoTwinFault, TwinFault("mkdirall", 0), TwinFault("corrupt", 0)}
    \cup SourceFaults(a)
    \cup UNION {{TwinFault(f, k) : f \in EntryFaults(a[k]) \ {"none"}} : k \in 1..Len(a)}

Run0 == [phase |-> "Init", format |-> "", pos |-> 0, tree |-> <<>>, log |-> <<>>, msg |-> ""]
\* Extract returns the error
FailRun(r, msg) == [r EXCEPT !.phase = "Failed", !.msg = msg]
RunReturned(r) == r.phase \in {"Completed", "Failed"}

\* os.MkdirAll(dst, 0755), the first statement of both
PrepareRun(a, r) ==
    IF a.fault = TwinFault("mkdirall", 0) \/ ~MkdirAllFS(r.tree, a.dst, DirPerm).ok
    THEN FailRun(r, "failed to create destination directory")
    ELSE [r EXCEPT !.phase = "DestinationPrepared",
                   !.tree = MkdirAllFS(r.tree, a.dst, DirPerm).fs]

\* MultiExtractor.Extract: io.ReadAll(src), which reads every zone, then
\* detectFormat(data)
ReadAllRun(a, r) ==
    IF IsSourceFault(a.fault) THEN FailRun(r, "failed to read source data")
    ELSE IF detectFormat(a.src.head).msg # "" THEN FailRun(r, detectFormat(a.src.head).msg)
    ELSE [r EXCEPT !.phase = "FormatDetected", !.format = detectFormat(a.src.head).format]

\* OptimizedExtractor.Extract: bufferedSrc.Peek(4), then detectFormatFromBytes
PeekRun(a, r) ==
    IF a.fault.kind = "source head" \/ a.src.len < PeekLen
    THEN FailRun(r, "failed to peek archive data")
    ELSE IF detectFormatFromBytes(a.src.head) = ""
    THEN FailRun(r, "unsupported archive format")
    ELSE [r EXCEPT !.phase = "FormatDetected", !.format = detectFormatFromBytes(a.src.head)]

\* gzip.NewReader / zip.NewReader on the bytes
DecoderRun(a, r) ==
    IF a.fault = TwinFault("corrupt", 0) \/ a.src.len <= PeekLen
    THEN FailRun(r, IF r.format = "zip" THEN "failed to create zip reader"
                    ELSE "failed to create gzip reader")
    ELSE [r EXCEPT !.phase = "Streaming"]

\* MultiExtractor.extractTarGz / extractZip up to the loop: the bytes are in
\* memory
DecoderRunLegacy(a, r) == DecoderRun(a, r)

\* extractZipFromReader: io.ReadAll(src) reads every zone that is left;
\* extractTarGzStream: gzip.NewReader(src) reads the header of the stream
DecoderRunOptimized(a, r) ==
    IF r.format = "zip" /\ a.fault.kind \in {"source decoder", "source entry"}
    THEN FailRun(r, "failed to read zip data")
    ELSE IF r.format # "zip" /\ a.fault.kind = "source decoder"
    THEN FailRun(r, "failed to create gzip reader")
    ELSE DecoderRun(a, r)

\* the run after entry k returned m
EntryDone(r, k, m) ==
    IF m.msg = "" THEN [r EXCEPT !.pos = k, !.tree = m.fs, !.log = m.calls]
    ELSE [FailRun(r, m.msg) EXCEPT !.pos = k, !.tree = m.fs, !.log = m.calls]

\* the fault the environment injects while entry k is materialized
FaultAt(a, k) == IF a.fault.at = k /\ ~IsSourceFault(a.fault) THEN a.fault.kind ELSE "none"

\* one turn of the entry loop: tarReader.Next() reads entry k from the
\* source when the archive is streamed
EntryRun(streamed, a, r, k) ==
    IF (streamed /\ r.format # "zip" /\ a.fault = TwinFault("source entry", k))
       \/ (FaultAt(a, k) = "corrupt" /\ r.format # "zip")
    THEN [FailRun(r, "failed to read tar entry") EXCEPT !.pos = k]
    ELSE IF r.format = "zip"
    THEN EntryDone(r, k, extractZipEntryOptimized(streamed, r.tree, r.log, k, a.archive[k],
                                                  a.dst, FaultAt(a, k)))
    ELSE EntryDone(r, k, extractTarEntryOptimized(streamed, r.tree, r.log, k, a.archive[k],
                                                  a.dst, FaultAt(a, k)))

\* the next step of a run
LoopRun(streamed, a, r) ==
    IF r.pos = Len(a.archive) THEN [r EXCEPT !.phase = "Completed"]
    ELSE EntryRun(streamed, a, r, r.pos + 1)

MultiExtractorStep(a, r) ==
    IF r.phase = "Init" THEN PrepareRun(a, r)
    ELSE IF r.phase = "DestinationPrepared" THEN ReadAllRun(a, r)
    ELSE IF r.phase = "FormatDetected" THEN DecoderRunLegacy(a, r)
    ELSE LoopRun(FALSE, a, r)

OptimizedExtractorStep(a, r) ==
    IF r.phase = "Init" THEN PrepareRun(a, r)
    ELSE IF r.phase = "DestinationPrepared" THEN PeekRun(a, r)
    ELSE IF r.phase = "FormatDetected" THEN DecoderRunOptimized(a, r)
    ELSE LoopRun(TRUE, a, r)

Twin(s, d, a, f) ==
    [fn |-> "Extract", arg |-> [src |-> s, dst |-> d, archive |-> a, fault |-> f],
     ret |-> [legacy |-> Run0, optimized |-> Run0], done |-> FALSE]

\* every source with one small archive; sequences of entries with every
\* fault; a few archives in every root
TwinInit ==
    /\ NoCall
    /\ job = <<>>
    /\ disk = <<>>
    /\ temps = {}
    /\ inst = <<>>
    /\ \/ \E s \in Sources :
            \E f \in {NoTwinFault} \cup SourceFaults(<<>>) :
                call = Twin(s, <<Sep, "d">>, <<RegEntry(<<"f">>, Hello)>>, f)
       \/ \E a \in SeqsOver(SeqTarEntries) : \E f \in TwinFaults(a) :
             call = Twin(GzSource, <<Sep, "d">>, a, f)
       \/ \E a \in SeqsOver(SeqZipEntries) : \E f \in TwinFaults(a) :
             call = Twin(ZipSource, <<Sep, "d">>, a, f)
       \/ \E d \in Roots, s \in {GzSource, ZipSource} :
             \E a \in {<<RegEntry(<<"f">>, Hello)>>,
                       <<DirEntry(<<"s", Sep>>), RegEntry(<<"s", Sep, "n">>, TwoBlocks)>>} :
                 call = Twin(s, d, a, NoTwinFault)

\* the call of MultiExtractor.Extract advances
MultiExtractorExtract ==
    /\ ~RunReturned(call.ret.legacy)
    /\ call' = [call EXCEPT !.ret.legacy = MultiExtractorStep(call.arg, call.ret.legacy)]
    /\ UNCHANGED <<single, conc, inst>>

\* the call of OptimizedExtractor.Extract advances, once the first returned
OptimizedExtractorExtract ==
    /\ RunReturned(call.ret.legacy)
    /\ ~RunReturned(call.ret.optimized)
    /\ \E r \in {OptimizedExtractorStep(call.arg, call.ret.optimized)} :
          call' = [call EXCEPT !.ret.optimized = r, !.done = RunReturned(r)]
    /\ UNCHANGED <<single, conc, inst>>

TwinNext == MultiExtractorExtract \/ OptimizedExtractorExtract

TwinSpec == TwinInit /\ [][TwinNext]_vars

\* the source cannot be read to its end and the archive is a tar.gz stream
\* whose header could be read
StreamCut ==
    /\ call.arg.fault.kind = "source entry"
    /\ detectFormat(call.arg.src.head).format = "tar.gz"

\* the tree with the destination root alone
RootAlone == MkdirAllFS(<<>>, call.arg.dst, DirPerm).fs

C28_NoWriteOutsideRoot ==
    \A ph \in DOMAIN fs : fs[ph].kind = "file" => Descends(dst, ph)

\* the name is a relative path with no ".." element
PlainRelative(name) ==
    /\ ~IsAbs(name)
    /\ \A i \in 1..Len(SplitSep(name)) : SplitSep(name)[i] # DotDot

\* C29: whether an entry is admitted does not depend on how the destination
\* root is spelled: an entry whose path is relative and has no ".." element
\* is not rejected by the path check, whatever the root
C29_AdmissionIgnoresSpelling ==
    \A k \in 1..pos :
        Decoded(k) /\ PlainRelative(archive[k].name) => ~RejectedAt(k)

\* ParseRepoURL names an owner and a repository for the URL
NamesRepository(url) ==
    /\ configParseRepoURL(url).err = ""
    /\ configParseRepoURL(url).owner # <<>>
    /\ configParseRepoURL(url).repo # <<>>

\* C30: for every repository URL of a configuration Load accepts,
\* ParseRepoURL succeeds; and whenever ParseRepoURL succeeds, the owner and
\* the repository name it returns are not empty
C30_LoadedURLsParse ==
    /\ (Returned("Load") /\ call.ret.err = "")
          => \A i \in 1..Len(call.ret.cfg.Github) : NamesRepository(call.ret.cfg.Github[i].URL)
    /\ (Returned("ParseRepoURL") /\ call.ret.err = "")
          => call.ret.owner # <<>> /\ call.ret.repo # <<>>

====
